---- MODULE Spec2Model ----
(***************************************************************************)
(* Verification model of the ingestion / recommendation pipeline:          *)
(*   - the Spotify API gateway (token lifecycle, retry/backoff loop),      *)
(*   - the JSON import writer and the provider import pipeline,            *)
(*   - the daily recommendation cache with its regenerate cooldown.        *)
(* Times are milliseconds since the epoch, as Date.now() returns them.     *)
(***************************************************************************)
EXTENDS Integers, Sequences, FiniteSets, TLC

VARIABLES
  now,          \* wall clock, Date.now()
  token,        \* prisma.token row of the user driving the gateway
  gw,           \* the spotifyRequest call in progress (or the last one)
  tracks,       \* prisma.track: id -> row
  playEvents,   \* prisma.playEvent: set of rows
  dailyRecRuns, \* prisma.dailyRecRun: set of rows
  gen,          \* the generateDailyRecommendations calls in progress
  recResponse,  \* the last answer of generateDailyRecommendations
  lastWrite,    \* history: the user and force flag of the last call that stored a row
  albums,       \* prisma.album: id -> name
  artists,      \* prisma.artist: id -> name
  trackArtists, \* prisma.trackArtist: set of <<trackId, artistId>>
  sp,           \* the runSpotifyImport call in progress, and its ImportRun status
  importResponse, \* the answer of the JSON import route being sent
  up,           \* the upload the JSON import route is reading and normalizing
  importRuns,   \* prisma.importRun: set of rows
  st,           \* the import-start requests in progress (req) and the
                \* background imports that are executing (imports)
  fn,           \* the report function being applied: its input and its result
  seed,         \* the fetchRecommendationCandidates call in progress
  userRows      \* prisma.user: id -> lastImportAt and lastImportStatus

storeVars == <<tracks, playEvents, albums, artists, trackArtists>>
importVars == <<sp, importResponse>>
gatewayVars == <<token, gw>>
recVars == <<dailyRecRuns, gen, recResponse, lastWrite>>
\* The variables of the pipelines specified further down
otherVars == <<up, importRuns, st, fn, seed, userRows>>
vars == <<now, token, gw, tracks, playEvents, dailyRecRuns, gen, recResponse,
          lastWrite, albums, artists, trackArtists, sp, importResponse,
          up, importRuns, st, fn, seed, userRows>>

----------------------------------------------------------------------------
(* Bounds of the model *)

MaxGwCalls == 1          \* gateway calls started in one behaviour
MaxGwTicks == 2          \* clock ticks of the gateway specification
MaxRecTicks == 4         \* clock ticks of the recommendation specification
MaxFiles == 2            \* files of one upload
MaxStartTicks == 4       \* clock ticks of the import-start specification
MaxRuns == 3             \* ImportRun rows of one behaviour
MaxEntries == 3          \* entries of a list that is sorted
MaxCursor == 24          \* last cursor from which a provider's next may be null

----------------------------------------------------------------------------
(* Values *)

Null == "null"

\* A JavaScript number: either NaN or an integer value.
Num(v) == [nan |-> FALSE, v |-> v]
NaN == [nan |-> TRUE, v |-> 0]

GwTickMs == 30 * 1000
REFRESH_THRESHOLD_MS == 60 * 1000
DEFAULT_MAX_RETRIES == 5

\* maxRetries values: the default (also passed by the importers) and the
\* per-id fallback lookups' 2
MaxRetriesOptions == {2, DEFAULT_MAX_RETRIES}

\* Statuses the provider answers with
HttpStatuses == {200, 401, 429, 404, 500}

\* Retry-After headers: absent, integer seconds, or the HTTP-date form
RetryAfterHeaders == {"absent", "0", "3", "Wed, 21 Oct 2015 07:28:00 GMT"}

\* Math.floor(Math.random() * 250) ranges over 0..249
Jitters == {0, 249}

\* Response bodies: JSON text or something response.json() rejects
Bodies == {"body", "not-json"}

\* Credentials the provider hands out, and the expires_in (seconds) it states
AccessTokens == {"a1", "a2"}
RefreshTokens == {"r1", "r2"}
ExpiresIn == {60, 90}

----------------------------------------------------------------------------
(* Store and recommendation values *)

MinuteMs == 60 * 1000
DAY_MS == 24 * 60 * 60 * 1000
REGENERATE_COOLDOWN_MS == 60 * 60 * 1000

Users == {"u1", "u2"}
GenProcs == {"g1", "g2"}
NoTime == -1

\* The recommendation clock starts at 22:50 UTC and advances by these
\* minutes: to 23:00, 23:50, 23:51, 00:01 and on
RecStartMs == (22 * 60 + 50) * MinuteMs
RecTickMinutes == <<10, 50, 1, 10, 60, 60>>

\* Track lists the provider's recommendation endpoint answers with, and the
\* album of each of those tracks
CandidateLists == {<<"t1">>, <<"t1", "t2">>, <<"t3", "t2">>, <<"t2", "t1", "t3">>}
ProviderAlbumOf == [t \in {"t1", "t2", "t3"} |->
                      IF t = "t3" THEN "al2" ELSE "al1"]

\* What a generate call answers: a recommendation set or an error, with the
\* HTTP status the daily route gives it
NoResponseYet ==
  [userId |-> Null, force |-> FALSE, existing |-> FALSE, calls |-> 0,
   kind |-> "none", fromCache |-> FALSE, tracks |-> {}, albums |-> {},
   generatedAt |-> NoTime, status |-> 0]

\* The locals of a generate call between its read and its write of the row
IdleGen ==
  [pc |-> "idle", userId |-> Null, force |-> FALSE, today |-> NoTime,
   existing |-> FALSE]

\* No runSpotifyImport call in progress; status, message, importedPlays,
\* importedTracks and finishedAt are the ImportRun of the last call (-1 and
\* NoTime for null), thrown is the message of the error the call threw
IdleImport(status) ==
  [pc |-> "idle", userId |-> Null, items |-> <<>>, todo |-> <<>>, status |-> status,
   message |-> "", importedPlays |-> -1, importedTracks |-> -1,
   finishedAt |-> NoTime, upserted |-> 0, thrown |-> ""]

\* What the JSON import route answers
NoImportResponse ==
  [userId |-> Null, payload |-> Null, status |-> 0, importedPlays |-> 0,
   importedTracks |-> 0, skippedPlays |-> 0]

\* An empty catalogue, and no import in progress
EmptyCatalogue == albums = <<>> /\ artists = <<>> /\ trackArtists = {}
NoImport ==
  /\ sp = IdleImport("none")
  /\ importResponse = NoImportResponse

\* The last-import columns of a user row: lastImportStatus is the text,
\* with the play count or the error message that is set into it (-1 and ""
\* where the text has none)
LastImport(at, text, plays, message) ==
  [lastImportAt |-> at,
   lastImportStatus |-> [text |-> text, plays |-> plays, message |-> message]]
NeverImported == LastImport(NoTime, "", -1, "")

\* No upload, no import-start request, no report and no candidate search
EmptyData == [albums |-> <<>>, artists |-> <<>>, tracks |-> <<>>, plays |-> <<>>]
IdleUpload ==
  [pc |-> "idle", userId |-> Null, files |-> <<>>, payload |-> [json |-> "none"],
   format |-> "none", keys |-> {}, found |-> {}, data |-> EmptyData, status |-> 0,
   error |-> "", importedPlays |-> 0, skippedPlays |-> 0, lookupStatus |-> 0,
   thrown |-> [kind |-> "none", code |-> "", message |-> ""]]
StartProcs == {"s1", "s2"}
IdleStart ==
  [pc |-> "idle", userId |-> Null, alreadyRunning |-> FALSE, importRunId |-> 0,
   status |-> 0]
NoStarts == [req |-> [p \in StartProcs |-> IdleStart], imports |-> {}]
NoReport == [op |-> "none"]
NoSeedError == [kind |-> "none", status |-> 0, message |-> ""]
IdleSeed ==
  [pc |-> "idle", seedTrackIds |-> <<>>, seedArtistIds |-> <<>>, seedGenres |-> <<>>,
   supportedSeedGenres |-> <<>>, strategies |-> <<>>, requests |-> <<>>,
   lastClientError |-> NoSeedError, returned |-> <<>>, thrown |-> NoSeedError]
NothingElse ==
  /\ up = IdleUpload
  /\ importRuns = {}
  /\ st = NoStarts
  /\ fn = NoReport
  /\ seed = IdleSeed
  /\ userRows = [u \in Users |-> NeverImported]

----------------------------------------------------------------------------
(* Gateway: pure helpers *)

\* response.ok
ResponseOk(status) == status >= 200 /\ status <= 299

\* safeJson: the parsed body, or null when parsing throws
safeJson(body) == IF body = "not-json" THEN Null ELSE body

\* Number(response.headers.get("retry-after") ?? "1")
RetryAfterNumber(header) ==
  CASE header = "absent" -> Num(1)
    [] header = "0" -> Num(0)
    [] header = "3" -> Num(3)
    [] OTHER -> NaN

\* Math.max(1, retryAfter) * 1000 + jitter, in JavaScript arithmetic
BackoffMs(retryAfter, jitter) ==
  IF retryAfter.nan THEN NaN
  ELSE Num((IF retryAfter.v > 1 THEN retryAfter.v ELSE 1) * 1000 + jitter)

\* sleep(ms): the delay setTimeout applies; a NaN or < 1 delay becomes 1 ms
sleep(ms) == IF ms.nan \/ ms.v < 1 THEN 1 ELSE ms.v

\* The answers of the provider's token endpoint to a refresh grant
RefreshResponses ==
  [ok : {TRUE}, status : {200}, access_token : AccessTokens, expires_in : ExpiresIn,
   refresh_token : RefreshTokens \cup {Null}]
    \cup [ok : {FALSE}, status : {400}, access_token : {Null}, expires_in : {0},
          refresh_token : {Null}]

\* refreshSpotifyAccessToken, on a successful provider response: the row
\* written by prisma.token.update
refreshSpotifyAccessToken(tok, resp, t) ==
  [accessToken |-> resp.access_token,
   expiresAt |-> t + resp.expires_in * 1000,
   refreshToken |-> IF resp.refresh_token # Null THEN resp.refresh_token
                    ELSE tok.refreshToken]

\* Variant: the 60 second margin is forgotten
TokenStillValid_NoMargin(tok, t) == tok.expiresAt > t

\* getValidSpotifyAccessToken: TRUE when the stored token is used as is
TokenStillValid(tok, t) == tok.expiresAt > t + REFRESH_THRESHOLD_MS

NoRefresh ==
  [ok |-> FALSE, status |-> 0, access_token |-> Null, expires_in |-> 0,
   refresh_token |-> Null]
NoError == [kind |-> "none", status |-> 0, details |-> Null]
NoResponse == [status |-> 0, body |-> Null, header |-> "absent"]

IdleCall ==
  [pc |-> "idle", callNo |-> 0, maxRetries |-> DEFAULT_MAX_RETRIES, observer |-> FALSE,
   attempt |-> 0, accessToken |-> Null, http |-> 0, refreshes |-> 0,
   startValid |-> FALSE, observerCalls |-> 0, n401 |-> 0, n429 |-> 0,
   response |-> NoResponse, refreshResp |-> NoRefresh, sleepMs |-> 0, err |-> NoError,
   data |-> Null]

GwFail(g, kind, status, details) ==
  [g EXCEPT !.pc = "failed", !.response = NoResponse,
            !.err = [kind |-> kind, status |-> status, details |-> details]]

----------------------------------------------------------------------------
(* Gateway: the steps of spotifyRequest *)

\* Lines 164-166: read the options, resolve a valid access token
GwStart(mr, obs, resp) ==
  /\ gw.pc \in {"idle", "done", "failed"}
  /\ gw.callNo < MaxGwCalls
  /\ LET g0 == [IdleCall EXCEPT !.callNo = gw.callNo + 1, !.maxRetries = mr,
                                !.observer = obs,
                                !.startValid = TokenStillValid(token, now)]
     IN IF TokenStillValid(token, now)
        THEN /\ gw' = [g0 EXCEPT !.pc = "loop", !.accessToken = token.accessToken]
             /\ UNCHANGED token
        ELSE IF resp.ok
        THEN /\ token' = refreshSpotifyAccessToken(token, resp, now)
             /\ gw' = [g0 EXCEPT !.pc = "loop", !.accessToken = resp.access_token,
                                 !.refreshes = 1, !.refreshResp = resp]
        ELSE /\ gw' = GwFail([g0 EXCEPT !.refreshes = 1, !.refreshResp = resp],
                             "refresh_failed", resp.status, Null)
             /\ UNCHANGED token
  /\ UNCHANGED <<now, storeVars, importVars, recVars, otherVars>>

\* Lines 172 and 200: the loop condition, then either the next fetch or the
\* retry-limit error
LoopCheck(g) ==
  IF g.attempt <= g.maxRetries
  THEN [g EXCEPT !.pc = "await", !.http = @ + 1, !.refreshResp = NoRefresh]
  ELSE GwFail([g EXCEPT !.refreshResp = NoRefresh], "retry_limit", 429, Null)

GwLoop ==
  /\ gw.pc = "loop"
  /\ gw' = LoopCheck(gw)
  /\ UNCHANGED <<now, token, storeVars, importVars, recVars, otherVars>>

\* Line 173: the provider answers the pending fetch
GwReceive(status, body, header) ==
  /\ gw.pc = "await"
  /\ gw' = [gw EXCEPT !.pc = "handle",
                      !.response = [status |-> status, body |-> body,
                                    header |-> IF status = 429 THEN header ELSE "absent"]]
  /\ UNCHANGED <<now, token, storeVars, importVars, recVars, otherVars>>

\* Variant: the 401 branch retries without counting the attempt
On401_NoBudget(g, resp) ==
  IF resp.ok
  THEN [g EXCEPT !.pc = "loop", !.accessToken = resp.access_token,
                 !.refreshes = @ + 1, !.n401 = @ + 1, !.response = NoResponse,
                 !.refreshResp = resp]
  ELSE GwFail([g EXCEPT !.refreshes = @ + 1, !.n401 = @ + 1, !.refreshResp = resp],
              "refresh_failed", resp.status, Null)

\* Lines 175-179: a 401 answer refreshes the token and retries
On401(g, resp) ==
  IF resp.ok
  THEN [g EXCEPT !.pc = "loop", !.accessToken = resp.access_token, !.attempt = @ + 1,
                 !.refreshes = @ + 1, !.n401 = @ + 1, !.response = NoResponse,
                 !.refreshResp = resp]
  ELSE GwFail([g EXCEPT !.refreshes = @ + 1, !.n401 = @ + 1, !.refreshResp = resp],
              "refresh_failed", resp.status, Null)

GwHandle401(resp) ==
  /\ gw.pc = "handle"
  /\ gw.response.status = 401
  /\ gw' = On401(gw, resp)
  /\ token' = IF resp.ok THEN refreshSpotifyAccessToken(token, resp, now) ELSE token
  /\ UNCHANGED <<now, storeVars, importVars, recVars, otherVars>>

\* Lines 181-184: a 429 answer notifies the observer, then sleeps
On429(g, jitter, observerThrows) ==
  IF g.observer /\ observerThrows
  THEN GwFail([g EXCEPT !.observerCalls = @ + 1, !.n429 = @ + 1],
              "observer_error", 0, Null)
  ELSE [g EXCEPT !.pc = "sleep", !.n429 = @ + 1,
                 !.observerCalls = IF g.observer THEN @ + 1 ELSE @,
                 !.sleepMs = sleep(BackoffMs(RetryAfterNumber(g.response.header), jitter)),
                 !.response = NoResponse]

GwHandle429(jitter, observerThrows) ==
  /\ gw.pc = "handle"
  /\ gw.response.status = 429
  /\ gw' = On429(gw, jitter, observerThrows)
  /\ UNCHANGED <<now, token, storeVars, importVars, recVars, otherVars>>

\* Lines 184-186: the timer fires, the attempt is counted
GwWake ==
  /\ gw.pc = "sleep"
  /\ gw' = [gw EXCEPT !.pc = "loop", !.attempt = @ + 1, !.sleepMs = 0]
  /\ UNCHANGED <<now, token, storeVars, importVars, recVars, otherVars>>

\* Variant: server errors are retried like a 429
OnOther_Retry5xx(g) ==
  IF g.response.status >= 500
  THEN [g EXCEPT !.pc = "loop", !.attempt = @ + 1, !.response = NoResponse]
  ELSE IF ~ResponseOk(g.response.status)
  THEN GwFail(g, "SpotifyApiError", g.response.status, safeJson(g.response.body))
  ELSE [g EXCEPT !.pc = "done", !.data = safeJson(g.response.body),
                 !.response = NoResponse]

\* Lines 189-197: any other answer ends the call
OnOther(g) ==
  IF ~ResponseOk(g.response.status)
  THEN GwFail(g, "SpotifyApiError", g.response.status, safeJson(g.response.body))
  ELSE [g EXCEPT !.pc = "done", !.data = safeJson(g.response.body),
                 !.response = NoResponse]

GwHandleOther ==
  /\ gw.pc = "handle"
  /\ gw.response.status \notin {401, 429}
  /\ gw' = OnOther(gw)
  /\ UNCHANGED <<now, token, storeVars, importVars, recVars, otherVars>>

\* Time passes
GwTick ==
  /\ now < MaxGwTicks * GwTickMs
  /\ now' = now + GwTickMs
  /\ UNCHANGED <<token, gw, storeVars, importVars, recVars, otherVars>>

GwCallStep ==
  \/ GwLoop
  \/ \E status \in HttpStatuses, body \in Bodies, header \in RetryAfterHeaders :
       GwReceive(status, body, header)
  \/ \E resp \in RefreshResponses : GwHandle401(resp)
  \/ \E jitter \in Jitters, observerThrows \in BOOLEAN : GwHandle429(jitter, observerThrows)
  \/ GwWake
  \/ GwHandleOther

InitGateway ==
  /\ now = 0
  /\ token \in [accessToken : {"a1"}, expiresAt : {60 * 1000, 90 * 1000}, refreshToken : {"r1"}]
  /\ gw = IdleCall
  /\ tracks = <<>>
  /\ playEvents = {}
  /\ EmptyCatalogue
  /\ NoImport
  /\ NothingElse
  /\ dailyRecRuns = {}
  /\ gen = [p \in GenProcs |-> IdleGen]
  /\ recResponse = NoResponseYet
  /\ lastWrite = [userId |-> Null, forced |-> FALSE]

NextGateway ==
  \/ \E mr \in MaxRetriesOptions, obs \in BOOLEAN, resp \in RefreshResponses :
       GwStart(mr, obs, resp)
  \/ GwCallStep
  \/ GwTick

SpecGateway == InitGateway /\ [][NextGateway]_vars

\* The awaited fetches and timers of a call complete
SpecGatewayFair == SpecGateway /\ WF_vars(GwCallStep)

----------------------------------------------------------------------------
(* Recommendation engine: generateDailyRecommendations *)

\* Variant: the time of day is not cleared
dateOnlyUtc_NotTruncated(t) == t

\* dateOnlyUtc: setUTCHours(0, 0, 0, 0)
dateOnlyUtc(t) == t - (t % DAY_MS)

\* prisma.dailyRecRun.findUnique({ where: { userId_date } })
RecRowsOf(u, date) == {r \in dailyRecRuns : r.userId = u /\ r.date = date}

\* Variant: the listened tracks are the ones kept
RECURSIVE filterNewToMeTracks_Listened(_, _)
filterNewToMeTracks_Listened(candidates, listenedTrackIds) ==
  IF candidates = <<>> THEN <<>>
  ELSE (IF Head(candidates) \in listenedTrackIds THEN <<Head(candidates)>> ELSE <<>>)
         \o filterNewToMeTracks_Listened(Tail(candidates), listenedTrackIds)

\* filterNewToMeTracks, lines 78-83: candidates.filter over the track ids
RECURSIVE filterNewToMeTracks(_, _)
filterNewToMeTracks(candidates, listenedTrackIds) ==
  IF candidates = <<>> THEN <<>>
  ELSE (IF Head(candidates) \in listenedTrackIds THEN <<>> ELSE <<Head(candidates)>>)
         \o filterNewToMeTracks(Tail(candidates), listenedTrackIds)

\* Variant: the cooldown test is inverted
InCooldown_Inverted(t, createdAt) == t - createdAt >= REGENERATE_COOLDOWN_MS

\* Lines 549-551: now - createdAt < REGENERATE_COOLDOWN_MS
InCooldown(t, createdAt) == t - createdAt < REGENERATE_COOLDOWN_MS

\* mapRecommendationError of the daily route: the HTTP status of a failure
mapRecommendationError(kind, status) ==
  IF kind = "SpotifyApiError"
  THEN (IF status = 401 THEN 401
        ELSE IF status = 429 THEN 429
        ELSE IF status >= 400 /\ status < 500 THEN 400
        ELSE 502)
  ELSE IF kind \in {"no_history", "not_enough_data", "no_new_tracks",
                    "no_seed_combination", "no_candidates"} THEN 400
  ELSE IF kind = "throttled" THEN 429
  ELSE 500

\* The answer of a call: its request, and the outcome
GenAnswer(g, calls, kind, status) ==
  [NoResponseYet EXCEPT !.userId = g.userId, !.force = g.force,
                        !.existing = g.existing, !.calls = calls, !.kind = kind, !.status = status]

\* A thrown error, as the daily route reports it
GenFailed(g, calls, kind, status) ==
  GenAnswer(g, calls, kind, mapRecommendationError(kind, status))

\* Variant: a cache hit reports the time of the request as generatedAt
CachedResult_GeneratedNow(g, row, t) ==
  [GenAnswer(g, 0, "ok", 200) EXCEPT !.fromCache = TRUE, !.tracks = row.tracks,
                                     !.albums = row.albums, !.generatedAt = t]

\* Lines 538-546: the answer built from the cached row
CachedResult(g, row, t) ==
  [GenAnswer(g, 0, "ok", 200) EXCEPT !.fromCache = TRUE, !.tracks = row.tracks,
                                     !.albums = row.albums,
                                     !.generatedAt = row.createdAt]

\* Lines 527-554: read today's row, answer from the cache, throttle, or go on
GenStart(p, u, force) ==
  /\ recResponse = NoResponseYet
  /\ gen[p].pc = "idle"
  /\ LET today == dateOnlyUtc(now)
         g0 == [IdleGen EXCEPT !.userId = u, !.force = force, !.today = today]
         g1 == [g0 EXCEPT !.existing = TRUE]
     IN \/ /\ RecRowsOf(u, today) = {}
           /\ gen' = [gen EXCEPT ![p] = [g0 EXCEPT !.pc = "running"]]
           /\ UNCHANGED recResponse
        \/ \E row \in RecRowsOf(u, today) :
             IF ~force
             THEN /\ recResponse' = CachedResult(g1, row, now)
                  /\ UNCHANGED gen
             ELSE IF InCooldown(now, row.createdAt)
             THEN /\ recResponse' = GenFailed(g1, 0, "throttled", 0)
                  /\ UNCHANGED gen
             ELSE /\ gen' = [gen EXCEPT ![p] = [g1 EXCEPT !.pc = "running"]]
                  /\ UNCHANGED recResponse
  /\ UNCHANGED <<now, gatewayVars, storeVars, importVars, dailyRecRuns, lastWrite, otherVars>>

\* The answers of the provider while candidates are searched (lines 583-589)
CandidateOutcomes ==
  [kind : {"tracks"}, tracks : CandidateLists, status : {200}]
    \cup [kind : {"SpotifyApiError"}, tracks : {<<>>}, status : {401, 500}]
    \cup [kind : {"no_seed_combination", "no_candidates"}, tracks : {<<>>}, status : {0}]

\* Variant: today's row is written as soon as the candidates are filtered,
\* before the checks that follow
GenFinish_WritesEarly(p, out, enrichStatus) ==
  /\ recResponse = NoResponseYet
  /\ gen[p].pc = "running"
  /\ LET g == gen[p]
         listenedTrackIds == {e.trackId : e \in {f \in playEvents : f.userId = g.userId}}
         unseen == filterNewToMeTracks(out.tracks, listenedTrackIds)
         unseenTracks == {unseen[i] : i \in 1..Len(unseen)}
         newRow == [userId |-> g.userId, date |-> g.today, tracks |-> unseenTracks,
                    albums |-> {}, createdAt |-> now]
         ok == out.kind = "tracks" /\ Len(unseen) > 0 /\ enrichStatus = 200
     IN /\ dailyRecRuns' = (dailyRecRuns \ RecRowsOf(g.userId, g.today)) \cup {newRow}
        /\ lastWrite' = [userId |-> g.userId, forced |-> g.force]
        /\ recResponse' =
             IF ok
             THEN [GenAnswer(g, 2, "ok", 200) EXCEPT !.tracks = unseenTracks,
                                                     !.generatedAt = now]
             ELSE GenFailed(g, 1, "no_new_tracks", 0)
  /\ gen' = [gen EXCEPT ![p] = IdleGen]
  /\ UNCHANGED <<now, gatewayVars, storeVars, importVars, otherVars>>

\* Lines 556-704: read the history, fetch candidates, filter, score, select,
\* then update the row read at the start or create today's row
GenFinish(p, out, enrichStatus) ==
  /\ recResponse = NoResponseYet
  /\ gen[p].pc = "running"
  /\ LET g == gen[p]
         listenedRows == {e \in playEvents : e.userId = g.userId}
         listenedTrackIds == {e.trackId : e \in listenedRows}
         listenedAlbumIds == {tracks[e.trackId].albumId : e \in listenedRows} \ {Null}
         unseen == filterNewToMeTracks(out.tracks, listenedTrackIds)
         unseenTracks == {unseen[i] : i \in 1..Len(unseen)}
         albumRecs == {ProviderAlbumOf[t] : t \in unseenTracks} \ listenedAlbumIds
         failure ==
           IF listenedRows = {} THEN GenFailed(g, 0, "no_history", 0)
           ELSE IF out.kind # "tracks" THEN GenFailed(g, 1, out.kind, out.status)
           ELSE IF Len(unseen) = 0 THEN GenFailed(g, 1, "no_new_tracks", 0)
           ELSE IF enrichStatus # 200 THEN GenFailed(g, 2, "SpotifyApiError", enrichStatus)
           ELSE NoResponseYet
         newRow == [userId |-> g.userId, date |-> g.today, tracks |-> unseenTracks,
                    albums |-> albumRecs, createdAt |-> now]
         okResult == [GenAnswer(g, 2, "ok", 200) EXCEPT !.tracks = unseenTracks,
                                                        !.albums = albumRecs,
                                                        !.generatedAt = now]
         written == [userId |-> g.userId, forced |-> g.force]
     IN IF failure # NoResponseYet
        THEN /\ recResponse' = failure
             /\ UNCHANGED <<dailyRecRuns, lastWrite>>
        ELSE IF g.existing
        THEN \* prisma.dailyRecRun.update
             /\ dailyRecRuns' = (dailyRecRuns \ RecRowsOf(g.userId, g.today)) \cup {newRow}
             /\ recResponse' = okResult
             /\ lastWrite' = written
        ELSE IF RecRowsOf(g.userId, g.today) # {}
        THEN \* prisma.dailyRecRun.create hits the unique key (userId, date)
             /\ recResponse' = GenFailed(g, 2, "unique_constraint", 0)
             /\ UNCHANGED <<dailyRecRuns, lastWrite>>
        ELSE /\ dailyRecRuns' = dailyRecRuns \cup {newRow}
             /\ recResponse' = okResult
             /\ lastWrite' = written
  /\ gen' = [gen EXCEPT ![p] = IdleGen]
  /\ UNCHANGED <<now, gatewayVars, storeVars, importVars, otherVars>>

\* The route handler sends the answer
GenRespond ==
  /\ recResponse # NoResponseYet
  /\ recResponse' = NoResponseYet
  /\ UNCHANGED <<now, gatewayVars, storeVars, importVars, dailyRecRuns, gen, lastWrite, otherVars>>

RECURSIVE SumTo(_, _)
SumTo(seq, n) == IF n = 0 THEN 0 ELSE seq[n] + SumTo(seq, n - 1)

\* Time passes: the i-th tick of the clock
RecTick(i) ==
  /\ recResponse = NoResponseYet
  /\ now = RecStartMs + SumTo(RecTickMinutes, i - 1) * MinuteMs
  /\ now' = now + RecTickMinutes[i] * MinuteMs
  /\ UNCHANGED <<gatewayVars, storeVars, importVars, recVars, otherVars>>

\* Histories of the two users: u1 has listened to t1, u2 to nothing or to t2 and t3
InitHistories ==
  {{[userId |-> "u1", trackId |-> "t1", playedAt |-> 1000, importSource |-> "json_restore"]},
   {[userId |-> "u1", trackId |-> "t1", playedAt |-> 1000, importSource |-> "json_restore"],
    [userId |-> "u2", trackId |-> "t2", playedAt |-> 2000, importSource |-> "recently_played"],
    [userId |-> "u2", trackId |-> "t3", playedAt |-> 3000, importSource |-> "recently_played"]}}

InitRecs ==
  /\ now = RecStartMs
  /\ token = [accessToken |-> "a1", expiresAt |-> DAY_MS, refreshToken |-> "r1"]
  /\ gw = IdleCall
  /\ tracks = [t \in {"t1", "t2", "t3"} |->
                 [name |-> t, albumId |-> IF t = "t1" THEN "al1" ELSE Null,
                  artistIds |-> <<"ar1">>]]
  /\ playEvents \in InitHistories
  /\ albums = [a \in {"al1"} |-> "A"]
  /\ artists = [a \in {"ar1"} |-> "R"]
  /\ trackArtists = {<<t, "ar1">> : t \in {"t1", "t2", "t3"}}
  /\ NoImport
  /\ NothingElse
  /\ dailyRecRuns = {}
  /\ gen = [p \in GenProcs |-> IdleGen]
  /\ recResponse = NoResponseYet
  /\ lastWrite = [userId |-> Null, forced |-> FALSE]

NextRecs ==
  \/ \E p \in GenProcs, u \in Users, force \in BOOLEAN : GenStart(p, u, force)
  \/ \E p \in GenProcs, out \in CandidateOutcomes, enrichStatus \in {200, 500} :
       GenFinish(p, out, enrichStatus)
  \/ GenRespond
  \/ \E i \in 1..MaxRecTicks : RecTick(i)

SpecRecs == InitRecs /\ [][NextRecs]_vars

----------------------------------------------------------------------------
(* Import: payloads and pure helpers *)

\* The time value of an Invalid Date
InvalidDate == -1

\* new Date(text).getTime(): three spellings of 10:00, one of 11:00, and
\* texts that do not parse
DateParse(text) ==
  CASE text = "1970-01-01T10:00:00Z" -> 10 * 60 * MinuteMs
    [] text = "1970-01-01T10:00:00.000Z" -> 10 * 60 * MinuteMs
    [] text = "1970-01-01T12:00:00+02:00" -> 10 * 60 * MinuteMs
    [] text = "1970-01-01T11:00:00Z" -> 11 * 60 * MinuteMs
    [] OTHER -> InvalidDate

\* Date.prototype.toISOString of the instants above
toISOString(ms) ==
  CASE ms = 10 * 60 * MinuteMs -> "1970-01-01T10:00:00.000Z"
    [] ms = 11 * 60 * MinuteMs -> "1970-01-01T11:00:00.000Z"
    [] OTHER -> "RangeError"

Track(id, name, albumId, artistIds) ==
  [id |-> id, name |-> name, albumId |-> albumId, artistIds |-> artistIds]
Named(id, name) == [id |-> id, name |-> name]
Play(trackId, playedAt) == [trackId |-> trackId, playedAt |-> playedAt]

\* Canonical payloads (restorePayloadSchema) a user uploads
JsonPayloads ==
  [p1 |-> [albums |-> <<Named("al1", "A")>>,
           artists |-> <<Named("ar1", "R")>>,
           tracks |-> <<Track("t1", "old", "al1", <<"ar1">>),
                        Track("t1", "one", "al1", <<"ar1">>)>>,
           plays |-> <<Play("t1", "1970-01-01T10:00:00Z"),
                       Play("t1", "1970-01-01T10:00:00.000Z"),
                       Play("t2", "1970-01-01T11:00:00Z"),
                       Play("t1", "yesterday")>>],
   p2 |-> [albums |-> <<>>,
           artists |-> <<>>,
           tracks |-> <<Track("t2", "two", "al9", <<"ar1", "ar9">>)>>,
           plays |-> <<Play("t2", "1970-01-01T11:00:00Z")>>],
   p3 |-> [albums |-> <<>>,
           artists |-> <<>>,
           tracks |-> <<>>,
           plays |-> <<Play("t2", "1970-01-01T11:00:00Z"),
                       Play("t3", "1970-01-01T10:00:00.000Z")>>]]

\* Pages of recently played items the provider answers with, and top tracks
RecentlyPlayedLists ==
  [r1 |-> <<[track |-> Track("t1", "one", "al1", <<"ar1">>),
             played_at |-> "1970-01-01T10:00:00Z"],
            [track |-> Track("t3", "three", "al3", <<"ar1">>),
             played_at |-> "1970-01-01T10:00:00Z"]>>,
   r2 |-> <<[track |-> Track("t1", "one", "al1", <<"ar1">>),
             played_at |-> "1970-01-01T10:00:00.000Z"],
            [track |-> Track("t1", "one", "al1", <<"ar1">>),
             played_at |-> "1970-01-01T10:00:00Z"],
            [track |-> Track("t1", "one", "al1", <<"ar1">>),
             played_at |-> ""]>>]
TopTrackLists == {<<>>, <<Track("t3", "three", "al3", <<"ar1">>)>>}

\* The elements of a sequence
Range(seq) == {seq[i] : i \in 1..Len(seq)}

\* dedupeById, and the Map of runSpotifyImport: the position of an id is
\* that of its first item, the value that of its last
RECURSIVE dedupeById(_)
dedupeById(items) ==
  IF items = <<>> THEN <<>>
  ELSE LET front == dedupeById(SubSeq(items, 1, Len(items) - 1))
           last == items[Len(items)]
       IN IF \E i \in 1..Len(front) : front[i].id = last.id
          THEN [i \in 1..Len(front) |->
                  IF front[i].id = last.id THEN last ELSE front[i]]
          ELSE Append(front, last)

\* Variant: rows whose id is stored already are overwritten
CreateManyById_Overwrites(table, data) ==
  [id \in DOMAIN table \cup DOMAIN data |->
     IF id \in DOMAIN data THEN data[id] ELSE table[id]]

\* createMany({ skipDuplicates: true }) on a table keyed by id: rows whose
\* id is stored already are left as they are
CreateManyById(table, data) ==
  [id \in DOMAIN table \cup DOMAIN data |->
     IF id \in DOMAIN table THEN table[id] ELSE data[id]]

\* The data of a createMany: the rows of a deduplicated list, by id
ById(rows) == [id \in {r.id : r \in Range(rows)} |-> CHOOSE r \in Range(rows) : r.id = id]
NamesById(rows) == [id \in DOMAIN ById(rows) |-> ById(rows)[id].name]

\* upsert on a table keyed by id
Upsert(table, id, row) ==
  [x \in DOMAIN table \cup {id} |-> IF x = id THEN row ELSE table[x]]

\* The row of prisma.track of a track object
TrackRow(t) == [name |-> t.name, albumId |-> t.albumId, artistIds |-> t.artistIds]
TrackRowsById(rows) == [id \in DOMAIN ById(rows) |-> TrackRow(ById(rows)[id])]

\* The unique key of prisma.playEvent
PlayEventKey(e) == <<e.userId, e.trackId, e.playedAt>>

\* prisma.playEvent.createMany({ data, skipDuplicates: true }): the table
\* after it, and result.count
RECURSIVE PlayEventCreateMany(_, _)
PlayEventCreateMany(table, rows) ==
  IF rows = <<>> THEN [table |-> table, count |-> 0]
  ELSE LET before == PlayEventCreateMany(table, SubSeq(rows, 1, Len(rows) - 1))
           row == rows[Len(rows)]
       IN IF \E e \in before.table : PlayEventKey(e) = PlayEventKey(row)
          THEN before
          ELSE [table |-> before.table \cup {row}, count |-> before.count + 1]

----------------------------------------------------------------------------
(* JSON import: POST of the import route, from the canonical payload on *)

\* [...new Set(values)]
RECURSIVE uniqueInOrder(_)
uniqueInOrder(values) ==
  IF values = <<>> THEN <<>>
  ELSE LET front == uniqueInOrder(SubSeq(values, 1, Len(values) - 1))
           last == values[Len(values)]
       IN IF last \in Range(front) THEN front ELSE Append(front, last)

\* Lines 617-647: the ids of the batch and, of the other ids the tracks
\* name, those that are stored
VerifiedIds(batch, referenced, table) ==
  {r.id : r \in Range(batch)} \cup (referenced \cap DOMAIN table)

\* Variant: the track rows keep the references of the payload
PrunedTrack_Unpruned(t, albumIdSet, artistIdSet) ==
  Track(t.id, t.name, t.albumId, uniqueInOrder(t.artistIds))

\* Lines 649-667: the track rows with their references pruned
PrunedTrack(t, albumIdSet, artistIdSet) ==
  Track(t.id, t.name,
        IF t.albumId # Null /\ t.albumId \in albumIdSet THEN t.albumId ELSE Null,
        uniqueInOrder(SelectSeq(t.artistIds, LAMBDA a : a \in artistIdSet)))

\* Variant: every track a play names counts as known
KnownTrackIds_Unchecked(trackRows, plays, table) ==
  {t.id : t \in Range(trackRows)} \cup {p.trackId : p \in Range(plays)}

\* Lines 680-691: the tracks of the batch and the stored tracks plays name
KnownTrackIds(trackRows, plays, table) ==
  {t.id : t \in Range(trackRows)} \cup ({p.trackId : p \in Range(plays)} \cap DOMAIN table)

\* Lines 693-718: the play rows, without plays of unknown tracks, plays
\* whose date does not parse, and repeats of a (track, instant) of the batch
RECURSIVE PlayRows(_, _, _)
PlayRows(userId, plays, knownTrackIds) ==
  IF plays = <<>> THEN <<>>
  ELSE LET front == PlayRows(userId, SubSeq(plays, 1, Len(plays) - 1), knownTrackIds)
           play == plays[Len(plays)]
           parsedDate == DateParse(play.playedAt)
           uniqueKey == <<play.trackId, toISOString(parsedDate)>>
       IN IF play.trackId \notin knownTrackIds THEN front
          ELSE IF parsedDate = InvalidDate THEN front
          ELSE IF \E i \in 1..Len(front) :
                    <<front[i].trackId, toISOString(front[i].playedAt)>> = uniqueKey
          THEN front
          ELSE Append(front, [userId |-> userId, trackId |-> play.trackId,
                              playedAt |-> parsedDate,
                              importSource |-> "json_restore"])

\* Variant: the number of rows handed to createMany is reported
InsertedPlayCount_Attempted(playRows, chunkResult) == Len(playRows)

\* Lines 773-779: insertedPlayCount, the rows createMany inserted
InsertedPlayCount(playRows, chunkResult) == chunkResult.count

\* Lines 612-797: deduplicate, prune, select the plays and write everything
\* in one transaction: the tables after it, and the answer with the counts
JsonWriteData(userId, payload, data, store) ==
  LET uniqueAlbums == dedupeById(data.albums)
      uniqueArtists == dedupeById(data.artists)
      uniqueTracks == dedupeById(data.tracks)
      albumIdSet ==
        VerifiedIds(uniqueAlbums,
                    {t.albumId : t \in Range(uniqueTracks)} \ {Null}, store.albums)
      artistIdSet ==
        VerifiedIds(uniqueArtists,
                    UNION {Range(t.artistIds) : t \in Range(uniqueTracks)},
                    store.artists)
      trackRows == [i \in 1..Len(uniqueTracks) |->
                      PrunedTrack(uniqueTracks[i], albumIdSet, artistIdSet)]
      trackArtistRows ==
        UNION {{<<t.id, a>> : a \in Range(t.artistIds)} : t \in Range(trackRows)}
      knownTrackIds == KnownTrackIds(trackRows, data.plays, store.tracks)
      playRows == PlayRows(userId, data.plays, knownTrackIds)
      chunkResult == PlayEventCreateMany(store.playEvents, playRows)
  IN [albums |-> CreateManyById(store.albums, NamesById(uniqueAlbums)),
      artists |-> CreateManyById(store.artists, NamesById(uniqueArtists)),
      tracks |-> CreateManyById(store.tracks, TrackRowsById(trackRows)),
      trackArtists |-> store.trackArtists \cup trackArtistRows,
      playEvents |-> chunkResult.table,
      response |-> [userId |-> userId, payload |-> payload, status |-> 200,
                    importedPlays |-> InsertedPlayCount(playRows, chunkResult),
                    importedTracks |-> Len(trackRows),
                    skippedPlays |-> Len(data.plays) - Len(playRows)]]

\* The writer applied to a canonical payload of JsonPayloads
JsonWrite(userId, payload, store) ==
  JsonWriteData(userId, payload, JsonPayloads[payload], store)

\* The tables the JSON import reads and writes
Store ==
  [albums |-> albums, artists |-> artists, tracks |-> tracks,
   trackArtists |-> trackArtists, playEvents |-> playEvents]

\* Lines 781-787: the user row as the transaction leaves it
RestoreCompleted(t, insertedPlayCount) ==
  LastImport(t, "JSON restore completed", insertedPlayCount, "")

\* What the transaction throws: a PrismaClientKnownRequestError with its
\* code, an Error with a message, or a value that is no Error
WriterFailures ==
  [kind : {"PrismaClientKnownRequestError"}, code : {"P2002", "P2003", "P2024", "P2028"},
   message : {"db"}]
    \cup [kind : {"Error"}, code : {""}, message : {"Transaction already closed", ""}]
    \cup [kind : {"value"}, code : {""}, message : {""}]

\* formatPrismaImportError, lines 204-218
formatPrismaImportError(error) ==
  CASE error.code = "P2003" ->
         "Import failed due to missing related records (track/artist/album)."
    [] error.code = "P2024" ->
         "Import failed because the database timed out. Try importing a smaller file."
    [] error.code = "P2028" -> "Import transaction failed. Please retry."
    [] OTHER -> "Import failed while writing data to the database."

\* `Restore failed: ${error.message}`
RestoreFailedWith(message) ==
  CASE message = "Transaction already closed" ->
         "Restore failed: Transaction already closed"

\* Variant: one message for every failure
RestoreError_Generic(error) == "Restore failed"

\* Lines 798-809: the error text of the answer
RestoreError(error) ==
  IF error.kind = "PrismaClientKnownRequestError"
  THEN formatPrismaImportError(error)
  ELSE IF error.kind = "Error" /\ error.message # ""
  THEN RestoreFailedWith(error.message)
  ELSE "Restore failed"

\* POST, lines 612-810: the transaction commits and the counts are answered,
\* or it throws, nothing is written and the answer has status 500
JsonImport(userId, payload, transactionOk) ==
  /\ importResponse = NoImportResponse
  /\ IF transactionOk
     THEN LET after == JsonWrite(userId, payload, Store)
          IN /\ albums' = after.albums
             /\ artists' = after.artists
             /\ tracks' = after.tracks
             /\ trackArtists' = after.trackArtists
             /\ playEvents' = after.playEvents
             /\ importResponse' = after.response
             /\ userRows' = [userRows EXCEPT ![userId] =
                               RestoreCompleted(now, after.response.importedPlays)]
     ELSE /\ importResponse' =
               [NoImportResponse EXCEPT !.userId = userId, !.payload = payload,
                                        !.status = 500]
          /\ UNCHANGED <<storeVars, userRows>>
  /\ UNCHANGED <<now, gatewayVars, recVars, sp, up, importRuns, st, fn, seed>>

\* The route handler sends the answer
ImportRespond ==
  /\ importResponse # NoImportResponse
  /\ importResponse' = NoImportResponse
  /\ UNCHANGED <<now, gatewayVars, storeVars, recVars, sp, otherVars>>

----------------------------------------------------------------------------
(* Provider import: the import-start route and runSpotifyImport *)

\* A step of the try block throws an error of this message: control passes
\* to the catch block, line 463
SpFailed(message) ==
  /\ sp' = [sp EXCEPT !.pc = "catch", !.thrown = message]

\* The message of an error a database call throws
PersistenceErrorMessage == "Invalid prisma invocation"

\* The messages of the errors spotifyRequest throws
GatewayErrorMessages == {"Spotify API request failed", "Spotify API retry limit reached"}

\* The import-start route creates the ImportRun and launches runSpotifyImport
SpStart(userId) ==
  /\ importResponse = NoImportResponse
  /\ sp.pc = "idle"
  /\ sp' = [IdleImport("running") EXCEPT !.pc = "fetch", !.userId = userId]
  /\ UNCHANGED <<now, gatewayVars, storeVars, recVars, importResponse, otherVars>>

\* Lines 383-397: the history and the top lists are fetched through the
\* gateway and the tracks merged by id; a gateway error ends the run
SpFetch(list, topTracks, fetchOk) ==
  /\ importResponse = NoImportResponse
  /\ sp.pc = "fetch"
  /\ LET recentlyPlayed == RecentlyPlayedLists[list]
         mergedTracks ==
           dedupeById([i \in 1..Len(recentlyPlayed) |-> recentlyPlayed[i].track]
                        \o topTracks)
     IN IF fetchOk
        THEN sp' = [sp EXCEPT !.pc = "upsert", !.items = recentlyPlayed,
                              !.todo = mergedTracks]
        ELSE \E message \in GatewayErrorMessages : SpFailed(message)
  /\ UNCHANGED <<now, gatewayVars, storeVars, recVars, importResponse, otherVars>>

\* upsertTracksAndCoreMetadata, one track of the loop: its album, the track,
\* its artists and join rows; a write that throws ends the run with the
\* writes before it kept
SpUpsertTrack(outcome) ==
  /\ importResponse = NoImportResponse
  /\ sp.pc = "upsert"
  /\ LET track == Head(sp.todo)
         rest == Tail(sp.todo)
     IN /\ IF outcome = "album_upsert_throws"
           THEN UNCHANGED albums
           ELSE albums' = Upsert(albums, track.albumId, "A")
        /\ IF outcome = "ok"
           THEN /\ tracks' = Upsert(tracks, track.id, TrackRow(track))
                /\ artists' = [a \in DOMAIN artists \cup Range(track.artistIds) |->
                                 IF a \in Range(track.artistIds) THEN "R" ELSE artists[a]]
                /\ trackArtists' = trackArtists \cup
                                     {<<track.id, a>> : a \in Range(track.artistIds)}
                /\ sp' = [sp EXCEPT !.todo = rest,
                                    !.upserted = @ + 1,
                                    !.pc = IF rest = <<>> THEN "enrich" ELSE "upsert"]
           ELSE /\ SpFailed(PersistenceErrorMessage)
                /\ UNCHANGED <<tracks, artists, trackArtists>>
  /\ UNCHANGED <<now, gatewayVars, playEvents, recVars, importResponse, otherVars>>

\* Lines 421-422: enrichArtists and enrichAudioFeatures; a gateway error
\* ends the run
SpEnrich(enrichOk) ==
  /\ importResponse = NoImportResponse
  /\ sp.pc = "enrich"
  /\ IF enrichOk THEN sp' = [sp EXCEPT !.pc = "store"]
     ELSE SpFailed("Spotify API request failed")
  /\ UNCHANGED <<now, gatewayVars, storeVars, recVars, importResponse, otherVars>>

\* storePlayEvents: the rows of the items that have a track id and a
\* played_at
RECURSIVE ProviderPlayRows(_, _)
ProviderPlayRows(userId, items) ==
  IF items = <<>> THEN <<>>
  ELSE LET front == ProviderPlayRows(userId, SubSeq(items, 1, Len(items) - 1))
           item == items[Len(items)]
       IN IF item.track.id # "" /\ item.played_at # ""
          THEN Append(front, [userId |-> userId, trackId |-> item.track.id,
                              playedAt |-> DateParse(item.played_at),
                              importSource |-> "recently_played"])
          ELSE front

\* Lines 424-462: the play events are stored, the user's last import is set
\* and the run is completed; when createMany throws nothing is stored, when
\* the update of the user or the update of the run throws the stored play
\* events stay and control passes to the catch block
SpStore(outcome) ==
  /\ importResponse = NoImportResponse
  /\ sp.pc = "store"
  /\ LET rows == ProviderPlayRows(sp.userId, sp.items)
         result == PlayEventCreateMany(playEvents, rows)
     IN /\ IF outcome = "createMany_throws"
           THEN UNCHANGED playEvents
           ELSE playEvents' = result.table
        /\ IF outcome = "ok"
           THEN sp' = [IdleImport("completed") EXCEPT
                         !.importedPlays = result.count,
                         !.importedTracks = sp.upserted,
                         !.message = "Import completed",
                         !.finishedAt = now]
           ELSE SpFailed(PersistenceErrorMessage)
        /\ IF outcome \in {"ok", "run_update_throws"}
           THEN userRows' = [userRows EXCEPT ![sp.userId] =
                               LastImport(now, "Import completed", -1, "")]
           ELSE UNCHANGED userRows
  /\ UNCHANGED <<now, gatewayVars, tracks, albums, artists, trackArtists, recVars,
                 importResponse, up, importRuns, st, fn, seed>>

\* Lines 463-485, the catch block: the user's lastImportStatus is updated,
\* then the run is marked failed with the message of the error, and the
\* error is rethrown. When one of the two updates throws, the run is not
\* marked and that error leaves the function instead
SpCatch(outcome) ==
  /\ importResponse = NoImportResponse
  /\ sp.pc = "catch"
  /\ IF outcome = "ok"
     THEN sp' = [IdleImport("failed") EXCEPT !.message = sp.thrown,
                                            !.finishedAt = now,
                                            !.thrown = sp.thrown]
     ELSE sp' = [IdleImport(sp.status) EXCEPT !.thrown = outcome]
  /\ IF outcome = "user_update_throws"
     THEN UNCHANGED userRows
     ELSE userRows' = [userRows EXCEPT ![sp.userId] =
                         LastImport(@.lastImportAt, "Import failed: ", -1, sp.thrown)]
  /\ UNCHANGED <<now, gatewayVars, storeVars, recVars, importResponse, up,
                 importRuns, st, fn, seed>>

InitImport ==
  /\ now = 0
  /\ token = [accessToken |-> "a1", expiresAt |-> DAY_MS, refreshToken |-> "r1"]
  /\ gw = IdleCall
  /\ tracks = <<>>
  /\ playEvents = {}
  /\ EmptyCatalogue
  /\ NoImport
  /\ NothingElse
  /\ dailyRecRuns = {}
  /\ gen = [p \in GenProcs |-> IdleGen]
  /\ recResponse = NoResponseYet
  /\ lastWrite = [userId |-> Null, forced |-> FALSE]

\* User u1 imports every payload and runs the provider import; user u2
\* imports payload p1, the plays of which u1 has too
NextImport ==
  \/ \E userId \in Users, payload \in DOMAIN JsonPayloads, transactionOk \in BOOLEAN :
       /\ userId = "u1" \/ payload = "p1"
       /\ JsonImport(userId, payload, transactionOk)
  \/ ImportRespond
  \/ SpStart("u1")
  \/ \E list \in DOMAIN RecentlyPlayedLists, topTracks \in TopTrackLists,
        fetchOk \in BOOLEAN : SpFetch(list, topTracks, fetchOk)
  \/ \E outcome \in {"ok", "album_upsert_throws", "track_upsert_throws"} :
       SpUpsertTrack(outcome)
  \/ \E enrichOk \in BOOLEAN : SpEnrich(enrichOk)
  \/ \E outcome \in {"ok", "createMany_throws", "update_throws", "run_update_throws"} :
       SpStore(outcome)
  \/ \E outcome \in {"ok", "user_update_throws", "run_update_throws"} :
       SpCatch(outcome)

SpecImport == InitImport /\ [][NextImport]_vars

----------------------------------------------------------------------------
(* JSON import: reading, merging and normalizing the upload *)

MIN_MS_PLAYED == 30 * 1000

\* Track ids of the provider, and a text that is too short to be one
IdX == "4uLU6hMCjMI75M1A2tKUQC"
IdY == "0VjIjW4GlUZAMYd2vXMi3b"
IdShort == "4uLU6hMC"

\* SPOTIFY_TRACK_ID_REGEX.test(id), /^[A-Za-z0-9]{22}$/, on the texts above
SPOTIFY_TRACK_ID_REGEX(id) == id \in {IdX, IdY}

\* A text is a sequence of pieces, none of which holds a "T", a "Z", a ":" or
\* a space except the pieces that are one; Join is the text itself
RECURSIVE Join(_)
Join(pieces) == IF pieces = <<>> THEN "" ELSE Head(pieces) \o Join(Tail(pieces))

\* String.prototype.includes, replace (of the first occurrence) and endsWith
includes(input, piece) == \E i \in 1..Len(input) : input[i] = piece
replace(input, piece, by) ==
  IF ~includes(input, piece) THEN input
  ELSE LET first == CHOOSE i \in 1..Len(input) :
                      input[i] = piece /\ \A j \in 1..(i - 1) : input[j] # piece
       IN [input EXCEPT ![first] = by]
endsWith(input, piece) == input # <<>> /\ input[Len(input)] = piece

\* normalizeIsoDate: the ISO-8601 UTC text of a date text, or null
normalizeIsoDate(input) ==
  IF DateParse(input) = InvalidDate THEN Null ELSE toISOString(DateParse(input))

\* normalizePrivacyEndTime
normalizePrivacyEndTime(input) ==
  LET withTimeSeparator == IF includes(input, "T") THEN input
                           ELSE replace(input, " ", "T")
      withZone == IF endsWith(withTimeSeparator, "Z") THEN withTimeSeparator
                  ELSE Append(withTimeSeparator, "Z")
  IN normalizeIsoDate(Join(withZone))

\* extractTrackIdFromSpotifyUri, of the parts uri.split(":") gives; null and
\* the empty text are the empty sequence
extractTrackIdFromSpotifyUri(uri) ==
  IF uri = <<>> THEN Null
  ELSE IF Len(uri) # 3 \/ uri[2] # "track" THEN Null
  ELSE IF uri[3] = "" \/ ~SPOTIFY_TRACK_ID_REGEX(uri[3]) THEN Null
  ELSE uri[3]

\* JSON values: arrays, objects and texts
Arr(items) == [json |-> "array", items |-> items]
Obj(body) == [json |-> "object", body |-> body]
Str == [json |-> "string"]

\* The items of the two privacy exports, and an item with the keys of both
PrivacyItem(endTime, artistName, trackName, msPlayed) ==
  [endTime |-> endTime, artistName |-> artistName, trackName |-> trackName,
   msPlayed |-> msPlayed]
FullPrivacyItem(ts, ms_played, spotify_track_uri) ==
  [ts |-> ts, ms_played |-> ms_played, spotify_track_uri |-> spotify_track_uri,
   master_metadata_track_name |-> Null,
   master_metadata_album_artist_name |-> Null]
BothItem(ts, artistName, trackName, ms, spotify_track_uri) ==
  [endTime |-> ts, artistName |-> artistName, trackName |-> trackName,
   msPlayed |-> ms, ts |-> ts, ms_played |-> ms,
   spotify_track_uri |-> spotify_track_uri,
   master_metadata_track_name |-> trackName,
   master_metadata_album_artist_name |-> artistName]

\* A track object of the provider
SpotifyTrack(id, name, album, artistList) ==
  [id |-> id, name |-> name, album |-> album, artists |-> artistList]

\* The tracks of the provider by id, and the first hit of a search for a
\* (trackName, artistName) pair where there is one
ProviderTracks ==
  [id \in {IdX, IdY} |->
     IF id = IdX
     THEN SpotifyTrack(IdX, "B", Named("al1", "L"), <<Named("ar1", "A")>>)
     ELSE SpotifyTrack(IdY, "C", Named("al2", "M"),
                       <<Named("ar1", "A"), Named("ar2", "E")>>)]
ProviderSearch ==
  [pair \in {<<"B", "A">>, <<"C", "A">>} |-> IF pair[1] = "B" THEN IdX ELSE IdY]

\* The files a user uploads
RawFiles ==
  [native2 |-> Obj([tracks |-> Arr(JsonPayloads.p2.tracks),
                    plays |-> Arr(JsonPayloads.p2.plays)]),
   native3 |-> Obj([albums |-> Arr(<<Named("al9", "N")>>),
                    tracks |-> Arr(<<Track("t2", "2", Null, <<>>)>>),
                    plays |-> Arr(JsonPayloads.p3.plays)]),
   other |-> Obj([plays |-> Str]),
   text |-> Str,
   names |-> Arr(<<PrivacyItem(<<"1970-01-01", " ", "10:00:00">>, "A", "B", 40000),
                   PrivacyItem(<<"1970-01-01", " ", "10:00:00">>, "A", "B", 10000),
                   PrivacyItem(<<"1970-01-01", "T", "11:00:00", "Z">>, "A", "C", 30000),
                   PrivacyItem(<<"1970-01-01", " ", "11:00:00">>, "A", "D", 29999),
                   PrivacyItem(<<"1970-01-01", "T", "12:00:00", "+02:00">>, "A", "B", 40000),
                   PrivacyItem(<<"soon">>, "A", "B", 40000)>>),
   uris |-> Arr(<<FullPrivacyItem(<<"1970-01-01", "T", "10:00:00", "Z">>, 40000,
                                  <<"spotify", "track", IdX>>),
                  FullPrivacyItem(<<"1970-01-01", "T", "12:00:00", "+02:00">>, 30000,
                                  <<"spotify", "track", IdX>>),
                  FullPrivacyItem(<<"1970-01-01", "T", "11:00:00", "Z">>, 10000,
                                  <<"spotify", "track", IdY>>),
                  FullPrivacyItem(<<"1970-01-01", "T", "11:00:00", "Z">>, 40000,
                                  <<"spotify", "episode", IdY>>),
                  FullPrivacyItem(<<"1970-01-01", "T", "11:00:00", "Z">>, 40000,
                                  <<"spotify", "track", IdShort>>),
                  FullPrivacyItem(<<"1970-01-01", "T", "11:00:00", "Z">>, 40000, <<>>),
                  FullPrivacyItem(<<"soon">>, 40000, <<"spotify", "track", IdY>>)>>),
   both |-> Arr(<<BothItem(<<"1970-01-01", "T", "11:00:00", "Z">>, "A", "C", 40000,
                           <<"spotify", "track", IdX>>)>>),
   none |-> Arr(<<>>)]

\* Array.prototype.flat of a sequence of sequences
RECURSIVE flat(_)
flat(lists) == IF lists = <<>> THEN <<>> ELSE Head(lists) \o flat(Tail(lists))

\* restoreSchema.safeParse(payload).success: an object whose albums, artists,
\* tracks and plays, where present, are arrays (of well-formed rows)
RestoreKeys == {"albums", "artists", "tracks", "plays"}
restoreSchema(payload) ==
  /\ payload.json = "object"
  /\ \A key \in RestoreKeys \cap DOMAIN payload.body :
       payload.body[key].json = "array"

\* restoreSchema.safeParse(payload).data: absent arrays default to []
RestoreData(payload) ==
  [key \in RestoreKeys |->
     IF key \in DOMAIN payload.body THEN payload.body[key].items ELSE <<>>]

\* yourSpotifyPrivacySchema and yourSpotifyFullPrivacySchema: an array whose
\* items all have the keys of the schema
PrivacyKeys == {"endTime", "artistName", "trackName", "msPlayed"}
FullPrivacyKeys ==
  {"ts", "ms_played", "spotify_track_uri", "master_metadata_track_name",
   "master_metadata_album_artist_name"}
yourSpotifyPrivacySchema(payload) ==
  /\ payload.json = "array"
  /\ \A i \in 1..Len(payload.items) : PrivacyKeys \subseteq DOMAIN payload.items[i]
yourSpotifyFullPrivacySchema(payload) ==
  /\ payload.json = "array"
  /\ \A i \in 1..Len(payload.items) : FullPrivacyKeys \subseteq DOMAIN payload.items[i]

\* mergeRestorePayloads
mergeRestorePayloads(payloads) ==
  [key \in RestoreKeys |-> flat([i \in 1..Len(payloads) |-> payloads[i][key]])]

\* Variant: of files that do not go together, the first is imported
mergeRawPayloads_BestEffort(payloads) ==
  IF Len(payloads) = 1 THEN [ok |-> TRUE, payload |-> payloads[1]]
  ELSE IF \A i \in 1..Len(payloads) : restoreSchema(payloads[i])
  THEN LET merged == mergeRestorePayloads(
                       [i \in 1..Len(payloads) |-> RestoreData(payloads[i])])
       IN [ok |-> TRUE, payload |-> Obj([key \in RestoreKeys |-> Arr(merged[key])])]
  ELSE IF \A i \in 1..Len(payloads) : payloads[i].json = "array"
  THEN [ok |-> TRUE,
        payload |-> Arr(flat([i \in 1..Len(payloads) |-> payloads[i].items]))]
  ELSE [ok |-> TRUE, payload |-> payloads[1]]

\* mergeRawPayloads: the merged payload, or the error thrown
mergeRawPayloads(payloads) ==
  IF Len(payloads) = 1 THEN [ok |-> TRUE, payload |-> payloads[1]]
  ELSE IF \A i \in 1..Len(payloads) : restoreSchema(payloads[i])
  THEN LET merged == mergeRestorePayloads(
                       [i \in 1..Len(payloads) |-> RestoreData(payloads[i])])
       IN [ok |-> TRUE, payload |-> Obj([key \in RestoreKeys |-> Arr(merged[key])])]
  ELSE IF \A i \in 1..Len(payloads) : payloads[i].json = "array"
  THEN [ok |-> TRUE,
        payload |-> Arr(flat([i \in 1..Len(payloads) |-> payloads[i].items]))]
  ELSE [ok |-> FALSE, payload |-> Str]

\* Variant: the name-based schema is tried before the URI-based one
normalizeImportPayload_NamesFirst(payload) ==
  IF restoreSchema(payload) THEN "native"
  ELSE IF yourSpotifyPrivacySchema(payload) THEN "privacy"
  ELSE IF yourSpotifyFullPrivacySchema(payload) THEN "full_privacy"
  ELSE "unsupported"

\* normalizeImportPayload: the schema that decides how the payload is read
normalizeImportPayload(payload) ==
  IF restoreSchema(payload) THEN "native"
  ELSE IF yourSpotifyFullPrivacySchema(payload) THEN "full_privacy"
  ELSE IF yourSpotifyPrivacySchema(payload) THEN "privacy"
  ELSE "unsupported"

\* The items of a list that satisfy keep, in order
RECURSIVE Keep(_, _)
Keep(items, keep) ==
  IF items = <<>> THEN <<>>
  ELSE IF Head(items) \in keep THEN <<Head(items)>> \o Keep(Tail(items), keep)
  ELSE Keep(Tail(items), keep)

\* The first item of every id, in order (the Maps filled behind has())
RECURSIVE firstById(_)
firstById(items) ==
  IF items = <<>> THEN <<>>
  ELSE LET front == firstById(SubSeq(items, 1, Len(items) - 1))
           last == items[Len(items)]
       IN IF \E i \in 1..Len(front) : front[i].id = last.id
          THEN front ELSE Append(front, last)

\* buildNormalizedPayloadFromTrackEvents
buildNormalizedPayloadFromTrackEvents(events) ==
  [albums |-> firstById([i \in 1..Len(events) |->
                           Named(events[i].track.album.id, events[i].track.album.name)]),
   artists |-> firstById(flat([i \in 1..Len(events) |->
                                 [j \in 1..Len(events[i].track.artists) |->
                                    Named(events[i].track.artists[j].id,
                                          events[i].track.artists[j].name)]])),
   tracks |-> firstById([i \in 1..Len(events) |->
                           Track(events[i].track.id, events[i].track.name,
                                 events[i].track.album.id,
                                 [j \in 1..Len(events[i].track.artists) |->
                                    events[i].track.artists[j].id])]),
   plays |-> [i \in 1..Len(events) |-> Play(events[i].track.id, events[i].playedAt)]]

\* Variant: a listen of exactly the minimum duration is skipped too
TooShort_AtMost(msPlayed) == msPlayed <= MIN_MS_PLAYED

\* item.msPlayed < MIN_MS_PLAYED
TooShort(msPlayed) == msPlayed < MIN_MS_PLAYED

\* buildFromYourSpotifyPrivacy, lines 463-477: the pairs that are searched
PrivacyPairs(items) ==
  {<<items[i].trackName, items[i].artistName>> :
     i \in {j \in 1..Len(items) : ~TooShort(items[j].msPlayed)}}

\* buildFromYourSpotifyPrivacy, lines 505-526: the events, found being the
\* pairs whose search answered with a track
PrivacyEvents(items, found) ==
  LET kept == Keep(items,
                   {item \in Range(items) :
                      /\ ~TooShort(item.msPlayed)
                      /\ normalizePrivacyEndTime(item.endTime) # Null
                      /\ <<item.trackName, item.artistName>> \in found})
  IN [i \in 1..Len(kept) |->
        [track |-> ProviderTracks[ProviderSearch[<<kept[i].trackName,
                                                   kept[i].artistName>>]],
         playedAt |-> normalizePrivacyEndTime(kept[i].endTime)]]

\* buildFromYourSpotifyFullPrivacy, lines 420-440: the listens by track id,
\* as the list of the listens that count
FullPrivacyListens(items) ==
  Keep(items,
       {item \in Range(items) :
          /\ ~TooShort(item.ms_played)
          /\ extractTrackIdFromSpotifyUri(item.spotify_track_uri) # Null
          /\ normalizeIsoDate(Join(item.ts)) # Null})
FullPrivacyIds(items) ==
  LET listens == FullPrivacyListens(items)
  IN uniqueInOrder([i \in 1..Len(listens) |->
                      extractTrackIdFromSpotifyUri(listens[i].spotify_track_uri)])

\* buildFromYourSpotifyFullPrivacy, lines 442-456: the events track by
\* track, found being the ids fetchTracksByIds has a track for
FullPrivacyEvents(items, found) ==
  LET listens == FullPrivacyListens(items)
      ids == Keep(FullPrivacyIds(items), found)
      of(id) == Keep(listens,
                     {item \in Range(listens) :
                        extractTrackIdFromSpotifyUri(item.spotify_track_uri) = id})
  IN flat([k \in 1..Len(ids) |->
             [i \in 1..Len(of(ids[k])) |->
                [track |-> ProviderTracks[ids[k]],
                 playedAt |-> normalizeIsoDate(Join(of(ids[k])[i].ts))]]])

\* The request is answered with an error: nothing else of it remains
UploadFailed(userId, files, payload, status, error) ==
  up' = [IdleUpload EXCEPT !.pc = "respond", !.userId = userId, !.files = files,
                           !.payload = payload, !.status = status,
                           !.error = error]

\* POST, lines 555-610 to the first provider call: the files are read and
\* merged, the schema is chosen, and a native payload is ready to be written
UpRead(userId, files) ==
  /\ up.pc = "idle"
  /\ LET merged == mergeRawPayloads([i \in 1..Len(files) |-> RawFiles[files[i]]])
         format == normalizeImportPayload(merged.payload)
         request == [IdleUpload EXCEPT !.userId = userId, !.files = files,
                                       !.payload = merged.payload,
                                       !.format = format]
     IN IF ~merged.ok
        THEN UploadFailed(userId, files, merged.payload, 400,
                          "Mixed JSON file formats are not supported")
        ELSE CASE format = "native" ->
                    up' = [request EXCEPT !.pc = "write",
                                          !.data = RestoreData(merged.payload)]
               [] format = "full_privacy" ->
                    up' = [request EXCEPT !.pc = "resolve",
                                          !.keys = Range(FullPrivacyIds(merged.payload.items))]
               [] format = "privacy" ->
                    up' = [request EXCEPT !.pc = "resolve",
                                          !.keys = PrivacyPairs(merged.payload.items)]
               [] OTHER ->
                    UploadFailed(userId, files, merged.payload, 400,
                                 "Unsupported JSON format")
  /\ UNCHANGED <<now, gatewayVars, storeVars, recVars, importVars, importRuns,
                 st, fn, seed, userRows>>

\* The statuses a provider call of the lookups fails with, 0 being no
\* failure
LookupFailures == {0, 401, 500}

\* fetchTracksByIds, lines 359-414, and the searches of
\* buildFromYourSpotifyPrivacy, lines 480-504: the provider has answered the
\* searches or the lookups, found being the keys it answered with a track.
\* A call that throws a SpotifyApiError of status lookupStatus is caught where
\* it was made (lines 382-408 and 497-504) and counts as no track. Then the
\* canonical payload is built
UpResolve(found, lookupStatus) ==
  /\ up.pc = "resolve"
  /\ found \subseteq up.keys
  /\ lookupStatus # 0 => found # up.keys
  /\ up.format = "privacy" => found \subseteq DOMAIN ProviderSearch
  /\ up' = [up EXCEPT
              !.pc = "write",
              !.found = found,
              !.lookupStatus = lookupStatus,
              !.data = buildNormalizedPayloadFromTrackEvents(
                         IF up.format = "privacy"
                         THEN PrivacyEvents(up.payload.items, found)
                         ELSE FullPrivacyEvents(up.payload.items, found))]
  /\ UNCHANGED <<now, gatewayVars, storeVars, recVars, importVars, importRuns,
                 st, fn, seed, userRows>>

\* POST, lines 612-810: the transaction commits and the counts are answered,
\* or it throws, nothing is written and the answer has status 500
UpWrite(transactionOk) ==
  /\ up.pc = "write"
  /\ IF transactionOk
     THEN LET after == JsonWriteData(up.userId, "upload", up.data, Store)
          IN /\ albums' = after.albums
             /\ artists' = after.artists
             /\ tracks' = after.tracks
             /\ trackArtists' = after.trackArtists
             /\ playEvents' = after.playEvents
             /\ userRows' = [userRows EXCEPT ![up.userId] =
                               RestoreCompleted(now, after.response.importedPlays)]
             /\ up' = [up EXCEPT !.pc = "respond", !.status = 200,
                                 !.importedPlays = after.response.importedPlays,
                                 !.skippedPlays = after.response.skippedPlays]
     ELSE /\ \E error \in WriterFailures :
               up' = [up EXCEPT !.pc = "respond", !.status = 500,
                                !.thrown = error,
                                !.error = RestoreError(error)]
          /\ UNCHANGED <<storeVars, userRows>>
  /\ UNCHANGED <<now, gatewayVars, recVars, importVars, importRuns, st, fn, seed>>

\* The route handler sends the answer
UpRespond ==
  /\ up.pc = "respond"
  /\ up' = IdleUpload
  /\ UNCHANGED <<now, gatewayVars, storeVars, recVars, importVars, importRuns,
                 st, fn, seed, userRows>>

\* The lists of at most MaxFiles files
FileLists == UNION {[1..n -> DOMAIN RawFiles] : n \in 1..MaxFiles}

InitUpload ==
  /\ now = 0
  /\ token = [accessToken |-> "a1", expiresAt |-> DAY_MS, refreshToken |-> "r1"]
  /\ gw = IdleCall
  /\ tracks = <<>>
  /\ playEvents = {}
  /\ EmptyCatalogue
  /\ NoImport
  /\ NothingElse
  /\ dailyRecRuns = {}
  /\ gen = [p \in GenProcs |-> IdleGen]
  /\ recResponse = NoResponseYet
  /\ lastWrite = [userId |-> Null, forced |-> FALSE]

NextUpload ==
  \/ \E files \in FileLists : UpRead("u1", files)
  \/ \E found \in SUBSET up.keys, lookupStatus \in LookupFailures :
       UpResolve(found, lookupStatus)
  \/ \E transactionOk \in BOOLEAN : UpWrite(transactionOk)
  \/ UpRespond

SpecUpload == InitUpload /\ [][NextUpload]_vars

----------------------------------------------------------------------------
(* Import start: POST of the import-start route *)

StartTickMs == 5 * MinuteMs
IN_FLIGHT_WINDOW_MS == 15 * 60 * 1000

\* startedAt of a created ImportRun: the time of its creation
StartedAtDefault(t) == t

\* Variant: a run of any status within the window counts
IsInFlight_AnyStatus(run, userId, t) ==
  /\ run.userId = userId
  /\ run.startedAt >= t - IN_FLIGHT_WINDOW_MS

\* Lines 14-21: the where clause of the guard query
IsInFlight(run, userId, t) ==
  /\ run.userId = userId
  /\ run.status = "running"
  /\ run.startedAt >= t - IN_FLIGHT_WINDOW_MS

\* Lines 14-23: the rows findFirst may answer with, those of the latest
\* startedAt among the rows of the where clause
ExistingRuns(userId, t) ==
  {run \in importRuns :
     /\ IsInFlight(run, userId, t)
     /\ \A other \in importRuns :
          IsInFlight(other, userId, t) => other.startedAt <= run.startedAt}

\* Lines 8-34: the guard query, and the answer when it finds a run
StGuard(p, userId) ==
  /\ st.req[p].pc = "idle"
  /\ Cardinality(importRuns) < MaxRuns
  /\ IF ExistingRuns(userId, now) # {}
     THEN \E existingRun \in ExistingRuns(userId, now) :
            st' = [st EXCEPT !.req[p] =
                     [pc |-> "respond", userId |-> userId, alreadyRunning |-> TRUE,
                      importRunId |-> existingRun.id, status |-> 202]]
     ELSE st' = [st EXCEPT !.req[p] = [IdleStart EXCEPT !.pc = "create",
                                                          !.userId = userId]]
  /\ UNCHANGED <<now, gatewayVars, storeVars, recVars, importVars, up,
                 importRuns, fn, seed, userRows>>

\* Variant: the guard is evaluated again, atomically with the create
StCreate_Atomic(p) ==
  /\ st.req[p].pc = "create"
  /\ LET id == Cardinality(importRuns) + 1
         userId == st.req[p].userId
     IN IF ExistingRuns(userId, now) # {}
        THEN /\ \E existingRun \in ExistingRuns(userId, now) :
                  st' = [st EXCEPT !.req[p] =
                           [pc |-> "respond", userId |-> userId,
                            alreadyRunning |-> TRUE,
                            importRunId |-> existingRun.id, status |-> 202]]
             /\ UNCHANGED importRuns
        ELSE /\ importRuns' = importRuns \cup
                                {[id |-> id, userId |-> userId, status |-> "running",
                                  startedAt |-> StartedAtDefault(now)]}
             /\ st' = [st EXCEPT !.req[p] = [@ EXCEPT !.pc = "respond",
                                                      !.importRunId = id,
                                                      !.status = 200],
                                 !.imports = @ \cup {id}]
  /\ UNCHANGED <<now, gatewayVars, storeVars, recVars, importVars, up, fn, seed, userRows>>

\* Lines 36-46: the ImportRun is created and runSpotifyImport launched
StCreate(p) ==
  /\ st.req[p].pc = "create"
  /\ LET id == Cardinality(importRuns) + 1
     IN /\ importRuns' = importRuns \cup
                           {[id |-> id, userId |-> st.req[p].userId,
                             status |-> "running",
                             startedAt |-> StartedAtDefault(now)]}
        /\ st' = [st EXCEPT !.req[p] = [@ EXCEPT !.pc = "respond",
                                                 !.importRunId = id,
                                                 !.status = 200],
                            !.imports = @ \cup {id}]
  /\ UNCHANGED <<now, gatewayVars, storeVars, recVars, importVars, up, fn, seed, userRows>>

\* Lines 26-33 and 48-51: the answer is sent
StRespond(p) ==
  /\ st.req[p].pc = "respond"
  /\ st' = [st EXCEPT !.req[p] = IdleStart]
  /\ UNCHANGED <<now, gatewayVars, storeVars, recVars, importVars, up,
                 importRuns, fn, seed, userRows>>

\* runSpotifyImport ends: the run is marked completed or failed
RunFinish(id, status) ==
  /\ id \in st.imports
  /\ importRuns' = {IF run.id = id THEN [run EXCEPT !.status = status] ELSE run :
                      run \in importRuns}
  /\ st' = [st EXCEPT !.imports = @ \ {id}]
  /\ UNCHANGED <<now, gatewayVars, storeVars, recVars, importVars, up, fn, seed, userRows>>

\* Time passes
StTick ==
  /\ now < MaxStartTicks * StartTickMs
  /\ now' = now + StartTickMs
  /\ UNCHANGED <<gatewayVars, storeVars, recVars, importVars, otherVars>>

\* No other request of the user is being handled
OneAtATime(p, userId) == \A q \in StartProcs \ {p} : st.req[q].userId # userId

InitStart ==
  /\ now = 0
  /\ token = [accessToken |-> "a1", expiresAt |-> DAY_MS, refreshToken |-> "r1"]
  /\ gw = IdleCall
  /\ tracks = <<>>
  /\ playEvents = {}
  /\ EmptyCatalogue
  /\ NoImport
  /\ NothingElse
  /\ dailyRecRuns = {}
  /\ gen = [p \in GenProcs |-> IdleGen]
  /\ recResponse = NoResponseYet
  /\ lastWrite = [userId |-> Null, forced |-> FALSE]

\* The requests of one user are handled one at a time
NextStart ==
  \/ \E p \in StartProcs, userId \in Users : OneAtATime(p, userId) /\ StGuard(p, userId)
  \/ \E p \in StartProcs : StCreate(p)
  \/ \E p \in StartProcs : StRespond(p)
  \/ \E id \in st.imports, status \in {"completed", "failed"} : RunFinish(id, status)
  \/ StTick

SpecStart == InitStart /\ [][NextStart]_vars

\* The requests of user u1 are handled as they arrive: the awaits of two
\* requests interleave
NextStartConcurrent ==
  \/ \E p \in StartProcs : StGuard(p, "u1")
  \/ \E p \in StartProcs : StCreate(p)
  \/ \E p \in StartProcs : StRespond(p)
  \/ \E id \in st.imports, status \in {"completed", "failed"} : RunFinish(id, status)
  \/ StTick

SpecStartConcurrent == InitStart /\ [][NextStartConcurrent]_vars

----------------------------------------------------------------------------
(* Aggregation: sortEntries, aggregateForRange and getTopEntries *)

\* A feature value that is null; the features are kept in the unit they are
\* answered in: thousandths for energy, danceability and valence, tenths
\* for tempo; minutes are kept in tenths, hours in hundredths
NoFeature == -1

\* Number((n / d).toFixed(k)) of a non-negative quotient, in units of 10^-k
RoundDiv(n, d) == (2 * n + d) \div (2 * d)

\* String.prototype.toLowerCase, trim and includes on texts given letter by
\* letter (or piece by piece)
LowerOf(piece) ==
  CASE piece = "A" -> "a" [] piece = "B" -> "b" [] piece = "C" -> "c"
    [] piece = "R" -> "r" [] piece = "Unknown" -> "unknown"
    [] piece = "Rock" -> "rock"
    [] piece = "Album" -> "album" [] piece = "Artist" -> "artist"
    [] OTHER -> piece
toLowerCase(text) == [i \in 1..Len(text) |-> LowerOf(text[i])]
RECURSIVE trim(_)
trim(text) ==
  IF text = <<>> THEN text
  ELSE IF Head(text) = " " THEN trim(Tail(text))
  ELSE IF text[Len(text)] = " " THEN trim(SubSeq(text, 1, Len(text) - 1))
  ELSE text
includesText(text, search) ==
  \E k \in 0..(Len(text) - Len(search)) :
    \A i \in 1..Len(search) : text[k + i] = search[i]

\* A TopEntry
TopEntry(rank, id, name, playCount, totalMinutes, lastListened) ==
  [rank |-> rank, id |-> id, name |-> name, playCount |-> playCount,
   totalMinutes |-> totalMinutes, lastListened |-> lastListened]

\* Variant: an entry that was never listened to comes first
compareEntries_MissingFirst(a, b, sortBy) ==
  CASE sortBy = "minutes" -> b.totalMinutes - a.totalMinutes
    [] sortBy = "recent" ->
         IF a.lastListened = Null THEN -1
         ELSE IF b.lastListened = Null THEN 1
         ELSE DateParse(b.lastListened) - DateParse(a.lastListened)
    [] OTHER -> b.playCount - a.playCount

\* sortEntries, lines 170-180: the comparator of each sort key
compareEntries(a, b, sortBy) ==
  CASE sortBy = "minutes" -> b.totalMinutes - a.totalMinutes
    [] sortBy = "recent" ->
         IF a.lastListened = Null THEN 1
         ELSE IF b.lastListened = Null THEN -1
         ELSE DateParse(b.lastListened) - DateParse(a.lastListened)
    [] OTHER -> b.playCount - a.playCount

\* Array.prototype.sort with the comparator: the input in an order in which
\* no pair stands against the comparator, pairs it holds equal keep their
\* input order (the sort is stable), and the order of a pair on which the
\* comparator contradicts itself (two entries without lastListened) is left
\* to the engine
SortOrders(input, sortBy) ==
  {f \in Permutations(1..Len(input)) :
     \A i, j \in 1..Len(input) :
       i < j =>
         LET ahead == compareEntries(input[f[i]], input[f[j]], sortBy)
             back == compareEntries(input[f[j]], input[f[i]], sortBy)
         IN \/ ahead < 0
            \/ ahead = 0 /\ f[i] < f[j]
            \/ ahead > 0 /\ back > 0}

\* sortEntries: the results the sort can have, ranks assigned by position
sortEntries(input, sortBy) ==
  {[i \in 1..Len(input) |-> [input[f[i]] EXCEPT !.rank = i]] :
     f \in SortOrders(input, sortBy)}

\* The tracks, albums and artists the aggregation reads
ReportTracks ==
  [t1 |-> [name |-> <<"A", "b", "b", "a">>, durationMs |-> 180000, albumId |-> "al1",
           artistIds |-> <<"ar1">>, energy |-> 200, danceability |-> 400,
           valence |-> 600, tempo |-> 1200],
   t2 |-> [name |-> <<"B", "e", "a", "t">>, durationMs |-> 240000, albumId |-> "al1",
           artistIds |-> <<"ar1", "ar2">>, energy |-> 900, danceability |-> 500,
           valence |-> 400, tempo |-> 905],
   t3 |-> [name |-> <<"a", "b", "c">>, durationMs |-> 60000, albumId |-> Null,
           artistIds |-> <<>>, energy |-> 500, danceability |-> NoFeature,
           valence |-> NoFeature, tempo |-> 1000]]
ReportAlbums == [al1 |-> [name |-> <<"A">>]]
ReportArtists ==
  [ar1 |-> [name |-> <<"R">>, genres |-> <<"rock", "pop">>],
   ar2 |-> [name |-> <<"C", "a", "b">>, genres |-> <<>>]]

\* The play events the store may hold
ReportEvents ==
  {[userId |-> "u1", trackId |-> "t1", playedAt |-> 10 * 60 * MinuteMs],
   [userId |-> "u1", trackId |-> "t1", playedAt |-> 11 * 60 * MinuteMs],
   [userId |-> "u1", trackId |-> "t2", playedAt |-> 10 * 60 * MinuteMs],
   [userId |-> "u1", trackId |-> "t3", playedAt |-> 11 * 60 * MinuteMs],
   [userId |-> "u2", trackId |-> "t2", playedAt |-> 11 * 60 * MinuteMs]}

\* The ranges a report is asked for
TimeRanges == {[from |-> 0, to |-> DAY_MS], [from |-> 11 * 60 * MinuteMs, to |-> DAY_MS]}

\* Lines 215-229: the events of the user in the range, playedAt descending;
\* the order of events of one instant is left to the database
FindPlayEvents(userId, range) ==
  LET found == {e \in playEvents : /\ e.userId = userId
                                   /\ e.playedAt >= range.from
                                   /\ e.playedAt <= range.to}
  IN {list \in [1..Cardinality(found) -> found] :
        /\ \A e \in found : \E i \in DOMAIN list : list[i] = e
        /\ \A i, j \in DOMAIN list : i < j => list[i].playedAt >= list[j].playedAt}

\* Variant: a track counts whatever features it has
HasAllFeatures_Any(track) == TRUE

\* Lines 287-292: the track has all four features
HasAllFeatures(track) ==
  /\ track.energy # NoFeature
  /\ track.danceability # NoFeature
  /\ track.valence # NoFeature
  /\ track.tempo # NoFeature

\* Sum of a field of the tracks of a list of events
RECURSIVE SumField(_, _)
SumField(events, field) ==
  IF events = <<>> THEN 0
  ELSE tracks[Head(events).trackId][field] + SumField(Tail(events), field)

\* Lines 276-299 and 396-402: featureAverages
FeatureAverages(events) ==
  LET complete == SelectSeq(events, LAMBDA e : HasAllFeatures(tracks[e.trackId]))
      featureWeight == Len(complete)
  IN [f \in {"energy", "danceability", "valence", "tempo"} |->
        IF featureWeight > 0 THEN RoundDiv(SumField(complete, f), featureWeight) ELSE 0]

\* Lines 313-376: what an event adds to the songs, albums, artists or genres
KeysOfEvent(type, e) ==
  LET track == tracks[e.trackId]
      artistName(a) == IF a \in DOMAIN artists THEN artists[a].name
                       ELSE <<"Unknown", " ", "Artist">>
      genresOf(a) == IF a \in DOMAIN artists /\ artists[a].genres # <<>>
                     THEN artists[a].genres ELSE <<"Unknown">>
  IN CASE type = "songs" -> <<[id |-> e.trackId, name |-> track.name]>>
       [] type = "albums" ->
            IF track.albumId = Null THEN <<>>
            ELSE <<[id |-> track.albumId,
                    name |-> IF track.albumId \in DOMAIN albums
                             THEN albums[track.albumId].name
                             ELSE <<"Unknown", " ", "Album">>]>>
       [] type = "artists" ->
            [i \in 1..Len(track.artistIds) |->
               [id |-> track.artistIds[i], name |-> artistName(track.artistIds[i])]]
       [] OTHER ->
            flat([i \in 1..Len(track.artistIds) |->
                    [j \in 1..Len(genresOf(track.artistIds[i])) |->
                       [id |-> genresOf(track.artistIds[i])[j],
                        name |-> <<genresOf(track.artistIds[i])[j]>>]]])

\* The additions of a list of events, in order
Additions(type, events) ==
  flat([i \in 1..Len(events) |->
          [j \in 1..Len(KeysOfEvent(type, events[i])) |->
             [id |-> KeysOfEvent(type, events[i])[j].id,
              name |-> KeysOfEvent(type, events[i])[j].name,
              durationMs |-> tracks[events[i].trackId].durationMs,
              playedAt |-> events[i].playedAt]]])

\* Sum of the durations and latest instant of the additions of an id
RECURSIVE SumDuration(_, _)
SumDuration(additions, id) ==
  IF additions = <<>> THEN 0
  ELSE (IF Head(additions).id = id THEN Head(additions).durationMs ELSE 0)
       + SumDuration(Tail(additions), id)
LatestPlayedAt(additions, id) ==
  CHOOSE t \in {a.playedAt : a \in {x \in Range(additions) : x.id = id}} :
    \A a \in Range(additions) : a.id = id => a.playedAt <= t

\* toTopEntries of an accumulator Map: one entry per id, in the order the
\* ids were first added
toTopEntries(additions) ==
  LET first == firstById(additions)
  IN [i \in 1..Len(first) |->
        TopEntry(0, first[i].id, first[i].name,
                 Cardinality({k \in 1..Len(additions) : additions[k].id = first[i].id}),
                 RoundDiv(SumDuration(additions, first[i].id), 6000),
                 toISOString(LatestPlayedAt(additions, first[i].id)))]

\* Lines 307-311 and 403-409: the daily buckets; every instant of the model
\* is on one day, so there is one bucket
DailyBuckets(events) ==
  <<[date |-> "1970-01-01", plays |-> Len(events),
     minutes |-> RoundDiv(SumField(events, "durationMs"), 6000)]>>

\* The rollups of an empty range
EmptyRollups ==
  [totalListeningHours |-> 0, totalUniqueSongs |-> 0, totalUniqueArtists |-> 0,
   totalUniqueAlbums |-> 0, listeningOverTime |-> <<>>, songs |-> <<>>,
   artists |-> <<>>, albums |-> <<>>, genres |-> <<>>,
   featureAverages |-> [f \in {"energy", "danceability", "valence", "tempo"} |-> 0]]

\* aggregateForRange on the events as the database answered them; the sort
\* by plays has one result
Rollups(events) ==
  IF events = <<>> THEN EmptyRollups
  ELSE LET sorted(type) ==
             CHOOSE list \in sortEntries(toTopEntries(Additions(type, events)), "plays") :
               TRUE
       IN [totalListeningHours |-> RoundDiv(SumField(events, "durationMs"), 36000),
           totalUniqueSongs |-> Cardinality({e.trackId : e \in Range(events)}),
           totalUniqueArtists |->
             Cardinality(UNION {Range(tracks[e.trackId].artistIds) : e \in Range(events)}),
           totalUniqueAlbums |->
             Cardinality({tracks[e.trackId].albumId : e \in Range(events)} \ {Null}),
           listeningOverTime |-> DailyBuckets(events),
           songs |-> sorted("songs"),
           artists |-> sorted("artists"),
           albums |-> sorted("albums"),
           genres |-> sorted("genres"),
           featureAverages |-> FeatureAverages(events)]

\* The report harness: the list a sort is asked for, and what was computed
ReportInput(entries) ==
  [op |-> "input", entries |-> entries, sortBy |-> "none", type |-> "none",
   search |-> <<>>, range |-> [from |-> 0, to |-> 0], events |-> <<>>,
   entriesOut |-> <<>>, rollups |-> EmptyRollups]

\* sortEntries is applied to the list
SortEntries(sortBy) ==
  /\ fn.op = "input"
  /\ \E sorted \in sortEntries(fn.entries, sortBy) :
       fn' = [fn EXCEPT !.op = "sortEntries", !.sortBy = sortBy, !.entriesOut = sorted]
  /\ UNCHANGED <<now, gatewayVars, storeVars, recVars, importVars, up,
                 importRuns, st, seed, userRows>>

\* aggregateForRange is applied to the store
AggregateForRange(userId, range) ==
  /\ fn.op = "input"
  /\ \E events \in FindPlayEvents(userId, range) :
       fn' = [fn EXCEPT !.op = "aggregateForRange", !.range = range,
                        !.events = events, !.rollups = Rollups(events)]
  /\ UNCHANGED <<now, gatewayVars, storeVars, recVars, importVars, up,
                 importRuns, st, seed, userRows>>

\* getTopEntries: the list of the type is filtered by the search and sorted
GetTopEntries(userId, range, type, search, sortBy) ==
  /\ fn.op = "input"
  /\ \E events \in FindPlayEvents(userId, range) :
       LET data == Rollups(events)
           needle == trim(toLowerCase(search))
           filtered == IF needle # <<>>
                       THEN SelectSeq(data[type],
                                      LAMBDA row : includesText(toLowerCase(row.name), needle))
                       ELSE data[type]
       IN \E sorted \in sortEntries(filtered, sortBy) :
            fn' = [fn EXCEPT !.op = "getTopEntries", !.range = range,
                             !.events = events, !.rollups = data, !.type = type,
                             !.search = search, !.sortBy = sortBy,
                             !.entriesOut = sorted]
  /\ UNCHANGED <<now, gatewayVars, storeVars, recVars, importVars, up,
                 importRuns, st, seed, userRows>>

\* The entries a list to sort is made of, and the lists of at most
\* MaxEntries entries
SortableEntries ==
  {TopEntry(1, "e1", <<"A">>, 3, 100, "1970-01-01T10:00:00.000Z"),
   TopEntry(0, "e2", <<"B">>, 3, 200, "1970-01-01T11:00:00.000Z"),
   TopEntry(2, "e3", <<"C">>, 1, 200, Null),
   TopEntry(0, "e4", <<"D">>, 2, 50, Null)}
EntryLists == UNION {[1..n -> SortableEntries] : n \in 0..MaxEntries}

\* Searches a top list is asked with, and the sort keys
Searches == {<<>>, <<" ">>, <<"B">>, <<" ", "a", "b", " ">>, <<"z">>}
SortKeys == {"plays", "minutes", "recent"}

InitReport ==
  /\ now = 0
  /\ token = [accessToken |-> "a1", expiresAt |-> DAY_MS, refreshToken |-> "r1"]
  /\ gw = IdleCall
  /\ tracks = ReportTracks
  /\ albums = ReportAlbums
  /\ artists = ReportArtists
  /\ trackArtists = {}
  /\ \/ /\ playEvents = {}
        /\ fn \in {ReportInput(entries) : entries \in EntryLists}
     \/ /\ playEvents \in SUBSET ReportEvents
        /\ fn = ReportInput(<<>>)
  /\ NoImport
  /\ up = IdleUpload
  /\ importRuns = {}
  /\ st = NoStarts
  /\ seed = IdleSeed
  /\ userRows = [u \in Users |-> NeverImported]
  /\ dailyRecRuns = {}
  /\ gen = [p \in GenProcs |-> IdleGen]
  /\ recResponse = NoResponseYet
  /\ lastWrite = [userId |-> Null, forced |-> FALSE]

NextReport ==
  \/ \E sortBy \in SortKeys : SortEntries(sortBy)
  \/ \E range \in TimeRanges : AggregateForRange("u1", range)
  \/ \E range \in TimeRanges, type \in {"songs", "artists", "albums", "genres"},
        search \in Searches, sortBy \in SortKeys :
       GetTopEntries("u1", range, type, search, sortBy)

SpecReport == InitReport /\ [][NextReport]_vars

----------------------------------------------------------------------------
(* Recommendation candidates: fetchRecommendationCandidates of              *)
(* src/unnamed/part_011                                                     *)

\* MAX_SEEDS_PER_REQUEST, line 55
MAX_SEEDS_PER_REQUEST == 5

\* Array.prototype.slice(start, end)
slice(list, start, end) ==
  SubSeq(list, start + 1, IF end < Len(list) THEN end ELSE Len(list))

\* dedupeStrings, lines 160-175: trimmed, without the empty ones, each once
RECURSIVE dedupeFrom(_, _)
dedupeFrom(values, deduped) ==
  IF values = <<>> THEN deduped
  ELSE LET normalized == Join(trim(Head(values)))
       IN IF normalized = "" \/ normalized \in Range(deduped)
          THEN dedupeFrom(Tail(values), deduped)
          ELSE dedupeFrom(Tail(values), Append(deduped, normalized))
dedupeStrings(values) == dedupeFrom(values, <<>>)

\* sanitizeGenreToken, lines 177-185: "&" becomes " and ", what is neither
\* letter, digit, space nor hyphen becomes a space, runs of spaces become one
RECURSIVE SanitizePieces(_)
SanitizePieces(text) ==
  IF text = <<>> THEN <<>>
  ELSE (CASE Head(text) = "&" -> <<" ", "and", " ">>
          [] Head(text) \in {"!", "/", "."} -> <<" ">>
          [] OTHER -> <<Head(text)>>) \o SanitizePieces(Tail(text))
RECURSIVE collapseSpaces(_)
collapseSpaces(text) ==
  IF Len(text) < 2 THEN text
  ELSE IF text[1] = " " /\ text[2] = " " THEN collapseSpaces(Tail(text))
  ELSE <<Head(text)>> \o collapseSpaces(Tail(text))
sanitizeGenreToken(input) ==
  trim(collapseSpaces(SanitizePieces(toLowerCase(trim(input)))))

\* toGenreSeedCandidates, lines 187-204
aliasCandidates(normalized) ==
  CASE normalized = "hip hop" -> "hip-hop"
    [] normalized = "hip-hop" -> "hip-hop"
    [] normalized = "r and b" -> "r-n-b"
    [] normalized = "rnb" -> "r-n-b"
    [] normalized = "drum and bass" -> "drum-and-bass"
    [] normalized = "k pop" -> "k-pop"
    [] OTHER -> ""
toGenreSeedCandidates(input) ==
  LET normalized == sanitizeGenreToken(input)
      collapsed == [i \in 1..Len(normalized) |->
                      IF normalized[i] = " " THEN "-" ELSE normalized[i]]
  IN IF normalized = <<>> THEN <<>>
     ELSE dedupeStrings(<<normalized, collapsed,
                          <<aliasCandidates(Join(normalized))>>>>)

\* Variant: three tracks and three artists go into one request
clampSeedsToSpotifyLimit_Three(seedRequest) ==
  LET seedTracks == slice(seedRequest.seedTracks, 0, 3)
      seedArtists == slice(seedRequest.seedArtists, 0, 3)
      remaining == MAX_SEEDS_PER_REQUEST - Len(seedTracks) - Len(seedArtists)
      genres == IF remaining > 0 THEN slice(seedRequest.seedGenres, 0, remaining)
                ELSE <<>>
  IN [seedTracks |-> seedTracks, seedArtists |-> seedArtists, seedGenres |-> genres,
      label |-> seedRequest.label]

\* clampSeedsToSpotifyLimit, lines 206-218
clampSeedsToSpotifyLimit(seedRequest) ==
  LET seedTracks == slice(seedRequest.seedTracks, 0, 2)
      seedArtists == slice(seedRequest.seedArtists, 0, 2)
      remaining == MAX_SEEDS_PER_REQUEST - Len(seedTracks) - Len(seedArtists)
      genres == IF remaining > 0 THEN slice(seedRequest.seedGenres, 0, remaining)
                ELSE <<>>
  IN [seedTracks |-> seedTracks, seedArtists |-> seedArtists, seedGenres |-> genres,
      label |-> seedRequest.label]

\* hasAtLeastOneSeed, lines 220-222
hasAtLeastOneSeed(seedRequest) ==
  Len(seedRequest.seedTracks) + Len(seedRequest.seedArtists)
    + Len(seedRequest.seedGenres) > 0

\* Array.prototype.join of strings
RECURSIVE joinWith(_, _)
joinWith(list, separator) ==
  IF list = <<>> THEN ""
  ELSE IF Len(list) = 1 THEN Head(list)
  ELSE Head(list) \o separator \o joinWith(Tail(list), separator)

\* buildSeedStrategyKey, lines 224-230: the label is no part of the key
buildSeedStrategyKey(seedRequest) ==
  joinWith(<<joinWith(seedRequest.seedTracks, ","),
             joinWith(seedRequest.seedArtists, ","),
             joinWith(seedRequest.seedGenres, ",")>>, "|")

\* The set a getAvailableGenreSeeds answer gives, lines 256-265
getAvailableGenreSeeds(genres) == {Join(toLowerCase(genres[i])) : i \in 1..Len(genres)}

\* filterSupportedGenres, lines 267-283: the first alternative of each
\* candidate that the provider supports, each match once
FindSupported(alternatives, availableGenres) ==
  IF \E i \in 1..Len(alternatives) : alternatives[i] \in availableGenres
  THEN alternatives[CHOOSE i \in 1..Len(alternatives) :
                      /\ alternatives[i] \in availableGenres
                      /\ \A j \in 1..(i - 1) : alternatives[j] \notin availableGenres]
  ELSE ""
RECURSIVE filterSupportedFrom(_, _, _)
filterSupportedFrom(candidateGenres, availableGenres, accepted) ==
  IF candidateGenres = <<>> THEN accepted
  ELSE LET match == FindSupported(toGenreSeedCandidates(Head(candidateGenres)),
                                  availableGenres)
       IN IF match = "" \/ match \in Range(accepted)
          THEN filterSupportedFrom(Tail(candidateGenres), availableGenres, accepted)
          ELSE filterSupportedFrom(Tail(candidateGenres), availableGenres,
                                   Append(accepted, match))
filterSupportedGenres(candidateGenres, availableGenres) ==
  filterSupportedFrom(candidateGenres, availableGenres, <<>>)

\* Lines 361-386: the four strategies in their order of priority
requestedStrategies(seedTrackIds, seedArtistIds, supportedSeedGenres) ==
  <<[seedTracks |-> seedTrackIds, seedArtists |-> seedArtistIds,
     seedGenres |-> supportedSeedGenres, label |-> "tracks+artists+genres"],
    [seedTracks |-> seedTrackIds, seedArtists |-> seedArtistIds,
     seedGenres |-> <<>>, label |-> "tracks+artists"],
    [seedTracks |-> seedTrackIds, seedArtists |-> <<>>,
     seedGenres |-> <<>>, label |-> "tracks-only"],
    [seedTracks |-> <<>>, seedArtists |-> seedArtistIds,
     seedGenres |-> <<>>, label |-> "artists-only"]>>

\* Lines 388-402: clamp each, skip the empty ones and those whose key was seen
RECURSIVE strategiesFrom(_, _, _)
strategiesFrom(requested, strategies, strategyKeys) ==
  IF requested = <<>> THEN strategies
  ELSE LET constrained == clampSeedsToSpotifyLimit(Head(requested))
           key == buildSeedStrategyKey(constrained)
       IN IF ~hasAtLeastOneSeed(constrained) \/ key \in strategyKeys
          THEN strategiesFrom(Tail(requested), strategies, strategyKeys)
          ELSE strategiesFrom(Tail(requested), Append(strategies, constrained),
                              strategyKeys \cup {key})

\* What spotifyRequest gives a caller: the body, or the error it throws
Answered(body) == [kind |-> "ok", status |-> 200, body |-> body]
Thrown(kind, status) == [kind |-> kind, status |-> status, body |-> <<>>]
SeedFailures ==
  {Thrown("SpotifyApiError", status) : status \in {400, 401, 429, 500}}
    \cup {Thrown("TypeError", 0)}
GenreSeedAnswers ==
  {Answered(genres) : genres \in {<<<<"rock">>, <<"R", "-", "n", "-", "B">>>>,
                                  <<<<"k-pop">>, <<"rock">>, <<"r-n-b">>>>,
                                  <<>>}}
    \cup SeedFailures
RecommendationAnswers ==
  {Answered(list) : list \in {<<>>, <<"c1">>, <<"c2", "c3">>}} \cup SeedFailures

\* The error fetchRecommendationCandidates throws itself
SeedError(message) == [kind |-> "Error", status |-> 0, message |-> message]
Rethrown(error) == [kind |-> error.kind, status |-> error.status, message |-> ""]

\* Lines 333-340: the seed ids without blanks and repetitions; nothing is
\* asked of the provider when there is no seed at all
SeedStart(seedTracks, seedArtists, seedGenres) ==
  /\ seed.pc = "idle"
  /\ LET seedTrackIds == slice(dedupeStrings(seedTracks), 0, MAX_SEEDS_PER_REQUEST)
         seedArtistIds == slice(dedupeStrings(seedArtists), 0, MAX_SEEDS_PER_REQUEST)
         s == [seed EXCEPT !.seedTrackIds = seedTrackIds,
                           !.seedArtistIds = seedArtistIds,
                           !.seedGenres = seedGenres]
     IN IF Len(seedTrackIds) + Len(seedArtistIds) = 0 /\ Len(seedGenres) = 0
        THEN seed' = [s EXCEPT !.pc = "done",
                 !.thrown = SeedError("Not enough listening data to generate recommendations yet.")]
        ELSE seed' = [s EXCEPT !.pc = "genres"]
  /\ UNCHANGED <<now, gatewayVars, storeVars, recVars, importVars, up, importRuns,
                 st, fn, userRows>>

\* Lines 342-406: the supported genres (none when the list could not be
\* fetched because of a 4xx other than 401), then the list of strategies
SeedGenres(answer) ==
  /\ seed.pc = "genres"
  /\ IF answer.kind # "ok"
        /\ (answer.kind # "SpotifyApiError" \/ answer.status = 401
              \/ answer.status >= 500)
     THEN seed' = [seed EXCEPT !.pc = "done", !.thrown = Rethrown(answer)]
     ELSE LET availableGenres == IF answer.kind = "ok"
                                 THEN getAvailableGenreSeeds(answer.body) ELSE {}
              supportedSeedGenres ==
                slice(filterSupportedGenres(seed.seedGenres, availableGenres), 0,
                      MAX_SEEDS_PER_REQUEST)
              strategies ==
                strategiesFrom(requestedStrategies(seed.seedTrackIds,
                                 seed.seedArtistIds, supportedSeedGenres), <<>>, {})
          IN IF Len(strategies) = 0
             THEN seed' = [seed EXCEPT !.pc = "done",
                      !.supportedSeedGenres = supportedSeedGenres,
                      !.thrown = SeedError("Not enough listening data to generate recommendations yet.")]
             ELSE seed' = [seed EXCEPT !.pc = "loop",
                      !.supportedSeedGenres = supportedSeedGenres,
                      !.strategies = strategies]
  /\ UNCHANGED <<now, gatewayVars, storeVars, recVars, importVars, up, importRuns,
                 st, fn, userRows>>

\* Lines 410-430 and 432-436: the end of the loop over the strategies
AfterLastStrategy(s) ==
  [s EXCEPT !.pc = "done",
            !.thrown = IF s.lastClientError # NoSeedError
                       THEN SeedError("Spotify could not generate recommendations from available seed combinations.")
                       ELSE SeedError("Spotify returned no recommendation candidates for your profile.")]

\* Lines 410-430: one strategy is asked of the provider
SeedRequest(answer) ==
  /\ seed.pc = "loop"
  /\ LET strategy == seed.strategies[Len(seed.requests) + 1]
         s == [seed EXCEPT !.requests = Append(@, [strategy |-> strategy,
                                                    answer |-> answer])]
         last == Len(s.requests) = Len(s.strategies)
     IN IF answer.kind = "ok"
        THEN IF Len(answer.body) > 0
             THEN seed' = [s EXCEPT !.pc = "done", !.returned = answer.body]
             ELSE seed' = IF last THEN AfterLastStrategy(s) ELSE s
        ELSE IF answer.kind = "SpotifyApiError" /\ answer.status >= 400
                /\ answer.status < 500
        THEN LET t == [s EXCEPT !.lastClientError = Rethrown(answer)]
             IN seed' = IF last THEN AfterLastStrategy(t) ELSE t
        ELSE seed' = [s EXCEPT !.pc = "done", !.thrown = Rethrown(answer)]
  /\ UNCHANGED <<now, gatewayVars, storeVars, recVars, importVars, up, importRuns,
                 st, fn, userRows>>

\* The caller has the candidates or the error
SeedReturn ==
  /\ seed.pc = "done"
  /\ seed' = IdleSeed
  /\ UNCHANGED <<now, gatewayVars, storeVars, recVars, importVars, up, importRuns,
                 st, fn, userRows>>

\* Seeds fetchRecommendationCandidates is called with
SeedIdLists ==
  {<<>>, <<<<" ">>>>, <<<<"x1">>>>, <<<<" ", "x1">>, <<"x1">>, <<"x2">>>>,
   <<<<"x1">>, <<"x2">>, <<"x3">>>>}
SeedGenreLists ==
  {<<>>, <<<<"vaporwave">>>>, <<<<"R", "&", "B">>, <<"k", " ", "pop">>>>,
   <<<<"Rock">>, <<"!">>, <<" ", "rock", "!">>, <<"vaporwave">>>>}

InitSeeds ==
  /\ now = 0
  /\ token = [accessToken |-> "a1", expiresAt |-> DAY_MS, refreshToken |-> "r1"]
  /\ gw = IdleCall
  /\ tracks = <<>>
  /\ playEvents = {}
  /\ EmptyCatalogue
  /\ NoImport
  /\ NothingElse
  /\ dailyRecRuns = {}
  /\ gen = [p \in GenProcs |-> IdleGen]
  /\ recResponse = NoResponseYet
  /\ lastWrite = [userId |-> Null, forced |-> FALSE]

NextSeeds ==
  \/ \E seedTracks \in SeedIdLists, seedArtists \in SeedIdLists,
        seedGenres \in SeedGenreLists :
       SeedStart(seedTracks, seedArtists, seedGenres)
  \/ \E answer \in GenreSeedAnswers : SeedGenres(answer)
  \/ \E answer \in RecommendationAnswers : SeedRequest(answer)
  \/ SeedReturn

SpecSeeds == InitSeeds /\ [][NextSeeds]_vars

----------------------------------------------------------------------------
(* Export: getAnalyticsExportPayload of src/lib/export/report.ts *)

\* getDashboardStats, lines 424-438, of the rollups it was answered
getDashboardStats(data, range) ==
  [range |-> range,
   totalListeningHours |-> data.totalListeningHours,
   totalUniqueSongs |-> data.totalUniqueSongs,
   totalUniqueArtists |-> data.totalUniqueArtists,
   totalUniqueAlbums |-> data.totalUniqueAlbums,
   listeningOverTime |-> data.listeningOverTime,
   topSongsPreview |-> slice(data.songs, 0, 5),
   topArtistsPreview |-> slice(data.artists, 0, 5),
   topAlbumsPreview |-> slice(data.albums, 0, 5)]

\* getWrappedSummary, lines 508-525, of the rollups it was answered; the
\* hours are in hundredths and the minutes in tenths, the personality is
\* kept as its traits
getWrappedSummary(data) ==
  [totalMinutes |-> data.totalListeningHours * 6,
   topSong |-> slice(data.songs, 0, 1),
   topArtist |-> slice(data.artists, 0, 1),
   topAlbum |-> slice(data.albums, 0, 1),
   topGenres |-> slice(data.genres, 0, 5),
   traits |-> data.featureAverages]

\* The six calls joined by Promise.all, lines 532-539
ExportParts == {"dashboard", "songs", "artists", "albums", "genres", "wrapped"}

\* Every instant of the model is in the year of the wrapped summary
WrappedRange == [from |-> 0, to |-> DAY_MS]

\* Lines 527-539: the six calls are started
ExportStart(userId, range) ==
  /\ fn.op = "input"
  /\ fn' = [op |-> "export", userId |-> userId, range |-> range,
            pending |-> ExportParts,
            dashboard |-> getDashboardStats(EmptyRollups, range),
            songs |-> <<>>, artists |-> <<>>, albums |-> <<>>, genres |-> <<>>,
            wrapped |-> getWrappedSummary(EmptyRollups)]
  /\ UNCHANGED <<now, gatewayVars, storeVars, recVars, importVars, up,
                 importRuns, st, seed, userRows>>

\* One of the calls reads the play events (its own aggregateForRange) and
\* has its result; the database answers one query over unchanged rows in one
\* order
ExportRead(part) ==
  /\ fn.op = "export"
  /\ part \in fn.pending
  /\ LET range == IF part = "wrapped" THEN WrappedRange ELSE fn.range
         events == CHOOSE list \in FindPlayEvents(fn.userId, range) : TRUE
         data == Rollups(events)
     IN fn' = [fn EXCEPT
                 !.pending = @ \ {part},
                 !.dashboard = IF part = "dashboard"
                               THEN getDashboardStats(data, fn.range) ELSE @,
                 !.songs = IF part = "songs"
                           THEN CHOOSE l \in sortEntries(data.songs, "plays") : TRUE
                           ELSE @,
                 !.artists = IF part = "artists"
                             THEN CHOOSE l \in sortEntries(data.artists, "plays") : TRUE
                             ELSE @,
                 !.albums = IF part = "albums"
                            THEN CHOOSE l \in sortEntries(data.albums, "plays") : TRUE
                            ELSE @,
                 !.genres = IF part = "genres"
                            THEN CHOOSE l \in sortEntries(data.genres, "plays") : TRUE
                            ELSE @,
                 !.wrapped = IF part = "wrapped" THEN getWrappedSummary(data) ELSE @]
  /\ UNCHANGED <<now, gatewayVars, storeVars, recVars, importVars, up,
                 importRuns, st, seed, userRows>>

\* Lines 541-549: the payload is returned
ExportReturn ==
  /\ fn.op = "export"
  /\ fn.pending = {}
  /\ fn' = ReportInput(<<>>)
  /\ UNCHANGED <<now, gatewayVars, storeVars, recVars, importVars, up,
                 importRuns, st, seed, userRows>>

\* The play events an import of the user stores while the export runs, one
\* createMany after the other
ImportedRows ==
  <<[userId |-> "u1", trackId |-> "t3", playedAt |-> 11 * 60 * MinuteMs],
    [userId |-> "u1", trackId |-> "t2", playedAt |-> 10 * 60 * MinuteMs]>>

\* An import of the user stores its next play event (createMany of
\* storePlayEvents, importer.ts 354-357, or of the JSON import)
ImportStoresPlay(i) ==
  /\ ImportedRows[i] \notin playEvents
  /\ \A j \in 1..(i - 1) : ImportedRows[j] \in playEvents
  /\ playEvents' = PlayEventCreateMany(playEvents, <<ImportedRows[i]>>).table
  /\ UNCHANGED <<now, gatewayVars, tracks, albums, artists, trackArtists, recVars,
                 importVars, otherVars>>

InitExport ==
  /\ now = 0
  /\ token = [accessToken |-> "a1", expiresAt |-> DAY_MS, refreshToken |-> "r1"]
  /\ gw = IdleCall
  /\ tracks = ReportTracks
  /\ albums = ReportAlbums
  /\ artists = ReportArtists
  /\ trackArtists = {}
  /\ playEvents \in {{}, {[userId |-> "u1", trackId |-> "t1",
                           playedAt |-> 10 * 60 * MinuteMs]}}
  /\ fn = ReportInput(<<>>)
  /\ NoImport
  /\ up = IdleUpload
  /\ importRuns = {}
  /\ st = NoStarts
  /\ seed = IdleSeed
  /\ userRows = [u \in Users |-> NeverImported]
  /\ dailyRecRuns = {}
  /\ gen = [p \in GenProcs |-> IdleGen]
  /\ recResponse = NoResponseYet
  /\ lastWrite = [userId |-> Null, forced |-> FALSE]

NextExport ==
  \/ \E range \in TimeRanges : ExportStart("u1", range)
  \/ \E part \in ExportParts : ExportRead(part)
  \/ ExportReturn
  \/ \E i \in 1..Len(ImportedRows) : ImportStoresPlay(i)

SpecExport == InitExport /\ [][NextExport]_vars

----------------------------------------------------------------------------
(* History pagination: fetchRecentlyPlayed of src/lib/spotify/importer.ts *)

\* maxPages = 20, the default the import calls it with
maxPages == 20

\* payload.next when it is null
NoCursor == -1

\* "/me/player/recently-played?limit=50", and the cursors after it, as the
\* numbers the provider tells them apart by
FirstPage == 0

\* The history of the provider: the page at a cursor has one item, named by
\* the cursor, and its next is stride further on, or null from limit on
\* unless the history is endless
ProviderPage(provider, cursor) ==
  [items |-> <<cursor>>,
   next |-> IF ~provider.endless /\ cursor >= provider.limit
            THEN NoCursor
            ELSE cursor + provider.stride]
Providers ==
  [limit : 0..MaxCursor, stride : 1..3, endless : {FALSE}]
    \cup [limit : {0}, stride : 1..3, endless : {TRUE}]

\* Lines 51-53: the call has set up rows, nextUrl and page
PagesInput(provider) ==
  [op |-> "fetchRecentlyPlayed", pc |-> "loop", provider |-> provider,
   rows |-> <<>>, nextUrl |-> FirstPage, page |-> 0, requests |-> <<>>]

\* Variant: one page more
MorePages_Inclusive(nextUrl, page) == nextUrl # NoCursor /\ page <= maxPages

\* Line 55: nextUrl && page < maxPages
MorePages(nextUrl, page) == nextUrl # NoCursor /\ page < maxPages

\* Lines 55-64: the loop goes on and spotifyRequest is called with nextUrl
PageRequest ==
  /\ fn.op = "fetchRecentlyPlayed"
  /\ fn.pc = "loop"
  /\ MorePages(fn.nextUrl, fn.page)
  /\ fn' = [fn EXCEPT !.pc = "await", !.requests = Append(@, fn.nextUrl)]
  /\ UNCHANGED <<now, gatewayVars, storeVars, recVars, importVars, up, importRuns,
                 st, seed, userRows>>

\* Lines 56-68: the awaited request answers with the page, its items are
\* pushed, nextUrl and page are set; or it throws, and so does the function
PageAnswer(ok) ==
  /\ fn.op = "fetchRecentlyPlayed"
  /\ fn.pc = "await"
  /\ LET payload == ProviderPage(fn.provider, fn.requests[Len(fn.requests)])
     IN IF ok
        THEN fn' = [fn EXCEPT !.pc = "loop", !.rows = @ \o payload.items,
                              !.nextUrl = payload.next, !.page = @ + 1]
        ELSE fn' = [fn EXCEPT !.pc = "thrown"]
  /\ UNCHANGED <<now, gatewayVars, storeVars, recVars, importVars, up, importRuns,
                 st, seed, userRows>>

\* Lines 55 and 71: the loop ends and rows is returned
PageReturn ==
  /\ fn.op = "fetchRecentlyPlayed"
  /\ fn.pc = "loop"
  /\ ~MorePages(fn.nextUrl, fn.page)
  /\ fn' = [fn EXCEPT !.pc = "returned"]
  /\ UNCHANGED <<now, gatewayVars, storeVars, recVars, importVars, up, importRuns,
                 st, seed, userRows>>

InitPages ==
  /\ now = 0
  /\ token = [accessToken |-> "a1", expiresAt |-> DAY_MS, refreshToken |-> "r1"]
  /\ gw = IdleCall
  /\ tracks = <<>>
  /\ playEvents = {}
  /\ EmptyCatalogue
  /\ NoImport
  /\ up = IdleUpload
  /\ importRuns = {}
  /\ st = NoStarts
  /\ seed = IdleSeed
  /\ userRows = [u \in Users |-> NeverImported]
  /\ fn \in {PagesInput(provider) : provider \in Providers}
  /\ dailyRecRuns = {}
  /\ gen = [p \in GenProcs |-> IdleGen]
  /\ recResponse = NoResponseYet
  /\ lastWrite = [userId |-> Null, forced |-> FALSE]

NextPages ==
  \/ PageRequest
  \/ \E ok \in BOOLEAN : PageAnswer(ok)
  \/ PageReturn

SpecPages == InitPages /\ [][NextPages]_vars

----------------------------------------------------------------------------
(* Properties of the gateway *)

GwTerminated == gw.pc \in {"done", "failed"}

RetryBudgetInv ==
  /\ gw.attempt <= gw.maxRetries + 1
  /\ gw.http <= gw.maxRetries + 1
  /\ gw.pc = "await" => gw.attempt <= gw.maxRetries
  /\ gw.pc \in {"loop", "await", "handle", "done"} => gw.attempt = gw.n401 + gw.n429
  /\ gw.err.kind = "SpotifyApiError" => gw.attempt = gw.n401 + gw.n429
  /\ gw.err.kind = "retry_limit" =>
       /\ gw.err.status = 429
       /\ gw.n401 + gw.n429 = gw.maxRetries + 1
       /\ gw.http = gw.maxRetries + 1
  /\ (gw.pc = "loop" /\ gw.n401 + gw.n429 > gw.maxRetries) => gw.attempt > gw.maxRetries

\* C6: spotifyRequest always terminates; 401 retries and 429 retries draw on
\* one budget, and when maxRetries retries are used up the call fails with
\* the retry-limit error of status 429, whatever the mix of 401 and 429.
C6_SharedRetryBudget ==
  /\ []RetryBudgetInv
  /\ (gw.pc = "loop") ~> GwTerminated

\* A call that ran out of budget on a mix of 401 and 429 answers
C6_Witness ==
  /\ gw.pc = "failed" /\ gw.err.kind = "retry_limit"
  /\ gw.maxRetries = DEFAULT_MAX_RETRIES
  /\ gw.n401 > 0 /\ gw.n429 > 0

\* C7: a non-success answer other than 401 and 429 fails the call at once
\* with that status and the parsed body: no further request, no refresh, no
\* observer call; a finished call issues nothing more.
C7_NonRetryableFailsAtOnce ==
  [][/\ (gw.pc = "handle" /\ gw' # gw
          /\ gw.response.status \notin {401, 429}
          /\ (gw.response.status < 200 \/ gw.response.status > 299)) =>
         /\ gw'.pc = "failed"
         /\ gw'.err.kind = "SpotifyApiError"
         /\ gw'.err.status = gw.response.status
         /\ gw'.err.details = (IF gw.response.body = "not-json" THEN Null
                               ELSE gw.response.body)
         /\ gw'.http = gw.http
         /\ gw'.refreshes = gw.refreshes
         /\ gw'.observerCalls = gw.observerCalls
         /\ gw'.attempt = gw.attempt
         /\ token' = token
     /\ (gw.pc = "failed" /\ gw'.callNo = gw.callNo) => (gw' = gw /\ token' = token)]_vars

\* A call that failed on a 500 after it had retried a 429
C7_Witness ==
  /\ gw.pc = "failed" /\ gw.err.kind = "SpotifyApiError" /\ gw.err.status = 500
  /\ gw.n429 = 1 /\ gw.http = 2 /\ gw.observerCalls = 1

\* C8: when every attempt is answered 401 and every refresh succeeds, the
\* error finally thrown carries status 401.
C8_AuthExpiredSurfacesAs401 ==
  (gw.pc = "failed" /\ gw.http > 0 /\ gw.n401 = gw.http /\ gw.err.kind # "refresh_failed")
    => gw.err.status = 401

\* C9: each 429 invokes the observer exactly once and the call then waits at
\* least 1000 ms (and under max(1, Retry-After) seconds + 250 ms).
C9_RateLimitBackoff ==
  /\ gw.observer => gw.observerCalls = gw.n429
  /\ gw.pc = "sleep" => gw.sleepMs >= 1000

\* The step asked the token endpoint for a refresh
GwRefreshed ==
  \/ gw'.callNo # gw.callNo /\ gw'.refreshes = 1
  \/ gw'.callNo = gw.callNo /\ gw'.refreshes # gw.refreshes

\* C10: a call starts on the stored token, unrefreshed, exactly when it
\* expires more than 60 s from now; a successful refresh persists the new
\* access token and expiry; the refresh token changes only to a refresh
\* token the provider's response contains.
C10_TokenLifecycle ==
  [][/\ gw'.callNo # gw.callNo =>
          IF token.expiresAt > now + 60000
          THEN /\ gw'.refreshes = 0
               /\ gw'.accessToken = token.accessToken
               /\ token' = token
          ELSE gw'.refreshes = 1
     /\ (GwRefreshed /\ gw'.refreshResp.ok) =>
          /\ token'.accessToken = gw'.refreshResp.access_token
          /\ token'.expiresAt = now + gw'.refreshResp.expires_in * 1000
          /\ gw'.accessToken = token'.accessToken
          /\ token'.refreshToken =
               (IF gw'.refreshResp.refresh_token = Null THEN token.refreshToken
                ELSE gw'.refreshResp.refresh_token)
     /\ token' # token => (GwRefreshed /\ gw'.refreshResp.ok)]_vars

\* A call started exactly 60 s before expiry, refreshed first, and the
\* provider sent no new refresh token
C10_Witness ==
  /\ gw.pc = "loop" /\ gw.http = 0 /\ gw.refreshes = 1 /\ ~gw.startValid
  /\ gw.refreshResp.ok /\ gw.refreshResp.refresh_token = Null
  /\ token.refreshToken = "r1" /\ token.accessToken = "a2"
  /\ now > 0

----------------------------------------------------------------------------
(* Properties of the recommendation engine *)

\* A generate call of user u with this force flag reads today's row in this
\* step: it either goes on to compute or is answered at once
GenStarts(u, force) ==
  \/ \E p \in GenProcs : /\ gen[p].pc = "idle"
                         /\ gen'[p].pc = "running"
                         /\ gen'[p].userId = u
                         /\ gen'[p].force = force
  \/ /\ gen' = gen
     /\ recResponse = NoResponseYet
     /\ recResponse' # NoResponseYet
     /\ recResponse'.userId = u
     /\ recResponse'.force = force

\* The rows of user u whose date falls on the UTC calendar day of time t
RowsOfDay(u, t) ==
  {r \in dailyRecRuns : r.userId = u /\ r.date \div DAY_MS = t \div DAY_MS}

OneRowPerUserAndDay ==
  \A r1, r2 \in dailyRecRuns :
    (r1.userId = r2.userId /\ r1.date \div DAY_MS = r2.date \div DAY_MS) => r1 = r2

\* A call that read an existing row stores its result in this step
OverwritesInPlace ==
  \A p \in GenProcs :
    (gen[p].pc = "running" /\ gen[p].existing /\ gen'[p].pc = "idle"
       /\ recResponse'.kind = "ok") =>
      /\ gen[p].force
      /\ Cardinality(dailyRecRuns') = Cardinality(dailyRecRuns)
      /\ \A r \in dailyRecRuns' :
           (r.userId = gen[p].userId /\ r.date \div DAY_MS = now \div DAY_MS
              /\ gen[p].today \div DAY_MS = now \div DAY_MS) =>
             (r.createdAt = now /\ r.tracks = recResponse'.tracks)
      /\ \A r \in dailyRecRuns :
           (r.userId # gen[p].userId \/ r.date # gen[p].today) => r \in dailyRecRuns'

\* C3: in every reachable state there is at most one DailyRecRun row per
\* (userId, UTC calendar date), whatever the interleaving of generate calls,
\* and a forced regeneration replaces the row it read instead of adding one.
C3_SingletonPerUserAndDay ==
  []OneRowPerUserAndDay /\ [][OverwritesInPlace]_vars

\* Reached: a forced regeneration has replaced the row it read, and its user
\* still has one row of that day
C3_Witness ==
  /\ recResponse.kind = "ok"
  /\ recResponse.force
  /\ recResponse.existing
  /\ ~recResponse.fromCache
  /\ \E r \in dailyRecRuns :
       /\ r.userId = recResponse.userId
       /\ r.createdAt = recResponse.generatedAt
       /\ r.createdAt > RecStartMs
       /\ Cardinality(RowsOfDay(r.userId, r.date)) = 1

\* C4: generate(userId, force = false) with a row for today's UTC date answers
\* with that row's tracks and albums, fromCache = true and generatedAt = the
\* row's createdAt, calls the provider zero times and leaves the rows as
\* they are.
C4_CacheHit ==
  [][\A u \in Users :
       (GenStarts(u, FALSE) /\ RowsOfDay(u, now) # {}) =>
         /\ gen' = gen
         /\ dailyRecRuns' = dailyRecRuns
         /\ recResponse'.kind = "ok"
         /\ recResponse'.status = 200
         /\ recResponse'.fromCache
         /\ recResponse'.calls = 0
         /\ \E row \in RowsOfDay(u, now) :
              /\ recResponse'.tracks = row.tracks
              /\ recResponse'.albums = row.albums
              /\ recResponse'.generatedAt = row.createdAt]_vars

\* Reached: a cache hit answered later than the row was made
C4_Witness ==
  /\ recResponse.kind = "ok"
  /\ recResponse.fromCache
  /\ ~recResponse.force
  /\ recResponse.tracks # {}
  /\ recResponse.generatedAt # NoTime
  /\ recResponse.generatedAt < now

\* The answer of this step is the throttling error, given with no provider
\* call and with the rows and the calls in progress left as they are
AnsweredThrottled ==
  /\ recResponse'.kind = "throttled"
  /\ recResponse'.status = 429
  /\ recResponse'.calls = 0
  /\ dailyRecRuns' = dailyRecRuns
  /\ gen' = gen

\* A forced call reads today's row: throttled below one hour since the row's
\* createdAt, let through to compute from one hour on
CooldownAtStart ==
  \A u \in Users :
    GenStarts(u, TRUE) =>
      \A row \in RowsOfDay(u, now) :
        IF now - row.createdAt < 60 * MinuteMs
        THEN AnsweredThrottled
        ELSE /\ recResponse' = NoResponseYet
             /\ dailyRecRuns' = dailyRecRuns
             /\ \E p \in GenProcs : gen[p].pc = "idle" /\ gen'[p].pc = "running"

\* A forced call that was let through past an existing row stores a fresh
\* set: the row of its day holds the answer's tracks and the time of this
\* step as createdAt
FreshSetResetsCreatedAt ==
  \A p \in GenProcs :
    (gen[p].pc = "running" /\ gen[p].force /\ gen[p].existing
       /\ gen'[p].pc = "idle" /\ recResponse'.kind = "ok") =>
      /\ ~recResponse'.fromCache
      /\ recResponse'.generatedAt = now
      /\ recResponse'.calls > 0
      /\ \E r \in dailyRecRuns' :
           /\ r.userId = gen[p].userId
           /\ r.date = gen[p].today
           /\ r.createdAt = now
           /\ r.tracks = recResponse'.tracks
           /\ r.albums = recResponse'.albums

\* The latest createdAt among the rows of user u
LastStoredAt(u) ==
  LET times == {r.createdAt : r \in {x \in dailyRecRuns : x.userId = u}}
  IN IF times = {} THEN NoTime
     ELSE CHOOSE t \in times : \A t2 \in times : t2 <= t

\* The last row stored was stored by a forced call of user u, `minutes` ago
ForcedRegenerateAgo(u, minutes) ==
  /\ lastWrite = [userId |-> u, forced |-> TRUE]
  /\ LastStoredAt(u) = now - minutes * MinuteMs

----------------------------------------------------------------------------
(* Properties of the imports *)

NoTwoPlayEventsShareKey ==
  \A e1, e2 \in playEvents :
    (e1.userId = e2.userId /\ e1.trackId = e2.trackId /\ e1.playedAt = e2.playedAt)
      => e1 = e2

\* The tables after a JSON import that committed
StoreAfter(written) ==
  [albums |-> written.albums, artists |-> written.artists, tracks |-> written.tracks,
   trackArtists |-> written.trackArtists, playEvents |-> written.playEvents]

\* From the tables as they are, a JSON import of payload P for user u run
\* twice in a row: the second run adds no play event and reports 0
ReplayAddsNothing ==
  \A u \in Users, P \in DOMAIN JsonPayloads :
    LET first == JsonWrite(u, P, Store)
        second == JsonWrite(u, P, StoreAfter(first))
    IN /\ second.playEvents = first.playEvents
       /\ second.response.importedPlays = 0

\* C1: replaying a JSON import is idempotent on play events: from any
\* reachable store and for any payload, a second run with the identical
\* payload leaves the PlayEvents of the first run and reports
\* importedPlays = 0; and after any sequence of JSON and provider imports no
\* two PlayEvents share (userId, trackId, playedAt).
C1_ReplayIsIdempotent ==
  /\ NoTwoPlayEventsShareKey
  /\ ReplayAddsNothing

\* Reached: payload p1 imported again by a user whose play of t1 an earlier
\* JSON import stored, with play events of the provider import stored too:
\* nothing is inserted
C1_Witness ==
  /\ importResponse.payload = "p1"
  /\ importResponse.status = 200
  /\ importResponse.importedPlays = 0
  /\ [userId |-> importResponse.userId, trackId |-> "t1",
      playedAt |-> DateParse("1970-01-01T10:00:00Z"),
      importSource |-> "json_restore"] \in playEvents
  /\ \E e \in playEvents : e.importSource = "recently_played"

\* C2: in every reachable state, after any sequence of JSON imports and
\* provider imports, also ones that fail part-way, every PlayEvent's trackId
\* is the id of a stored Track.
C2_PlayEventsReferenceStoredTracks ==
  \A e \in playEvents : e.trackId \in DOMAIN tracks

\* Reached: after a provider import that failed, a JSON import of p3 (plays
\* of t2 and t3, no tracks) stored the play of the one track that is stored
\* and skipped the other
C2_Witness ==
  /\ sp.status = "failed"
  /\ importResponse.payload = "p3"
  /\ importResponse.status = 200
  /\ importResponse.importedPlays = 1
  /\ importResponse.skippedPlays = 1
  /\ DOMAIN tracks # {"t1", "t2", "t3"}

----------------------------------------------------------------------------
(* Properties of the upload *)

\* The request has read its files
UploadRead == up.pc # "idle"

\* The upload was rejected with HTTP 400
Rejected400 == up.pc = "respond" /\ up.status = 400

\* The format is that of the first schema that matches, the privacy schemas
\* being tried in the order given, and a payload matching none is rejected
DecidedInOrder(isFirst, first, isSecond, second) ==
  UploadRead =>
    /\ restoreSchema(up.payload) => up.format = "native"
    /\ ~restoreSchema(up.payload) /\ isFirst => up.format = first
    /\ ~restoreSchema(up.payload) /\ ~isFirst /\ isSecond => up.format = second
    /\ ~restoreSchema(up.payload) /\ ~isFirst /\ ~isSecond => Rejected400

\* C11, as stated: the schemas are tried in the order Native, name-based,
\* URI-based, so a payload that satisfies both privacy schemas is processed
\* as name-based, and a payload matching none is rejected with HTTP 400
C11_NameBasedBeforeUriBased ==
  DecidedInOrder(yourSpotifyPrivacySchema(up.payload), "privacy",
                 yourSpotifyFullPrivacySchema(up.payload), "full_privacy")

\* C11, amended: the schemas are tried in the order Native, URI-based,
\* name-based, so a payload that satisfies both privacy schemas is processed
\* as URI-based, and a payload matching none is rejected with HTTP 400
C11_UriBasedBeforeNameBased ==
  DecidedInOrder(yourSpotifyFullPrivacySchema(up.payload), "full_privacy",
                 yourSpotifyPrivacySchema(up.payload), "privacy")

\* An upload whose items satisfy both privacy schemas has been resolved by
\* the ids of its URIs
C11_Witness ==
  /\ up.pc = "write"
  /\ yourSpotifyPrivacySchema(up.payload)
  /\ yourSpotifyFullPrivacySchema(up.payload)
  /\ up.format = "full_privacy"
  /\ \E i \in 1..Len(up.data.plays) : up.data.plays[i].trackId = IdX

\* The upload is a privacy export, and its payload has been built
PrivacyBuilt == up.pc = "write" /\ up.format \in {"privacy", "full_privacy"}

\* Of an entry of the privacy export being read: the listened duration, the
\* key the provider is asked for, the id of the track the provider answers
\* with, and the normalized timestamp
ListenedMs(item) == IF up.format = "privacy" THEN item.msPlayed ELSE item.ms_played
LookupKey(item) ==
  IF up.format = "privacy" THEN <<item.trackName, item.artistName>>
  ELSE extractTrackIdFromSpotifyUri(item.spotify_track_uri)
ResolvedId(item) ==
  IF up.format = "privacy" THEN ProviderSearch[LookupKey(item)] ELSE LookupKey(item)
IsoUtc(item) ==
  IF up.format = "privacy" THEN normalizePrivacyEndTime(item.endTime)
  ELSE normalizeIsoDate(Join(item.ts))

\* The entries that are intentional listens with a timestamp and a track
IntentionalListens ==
  {i \in 1..Len(up.payload.items) :
     /\ ListenedMs(up.payload.items[i]) >= 30000
     /\ IsoUtc(up.payload.items[i]) # Null
     /\ LookupKey(up.payload.items[i]) \in up.found}

\* The play an intentional listen stands for
PlayOf(item) == Play(ResolvedId(item), IsoUtc(item))

\* C12: every entry of a privacy export (name-based or URI-based) with a
\* listened duration >= 30000 ms, a parseable timestamp and a resolved track
\* yields exactly one play of that track at the timestamp in ISO-8601 UTC
\* ("1970-01-01 10:00:00" becomes 1970-01-01T10:00:00.000Z), entries below
\* 30000 ms yield no play, and the provider is asked only for keys of
\* entries of at least 30000 ms
C12_IntentionalListensOnly ==
  /\ PrivacyBuilt =>
       /\ Len(up.data.plays) = Cardinality(IntentionalListens)
       /\ \A i \in IntentionalListens :
            Cardinality({j \in 1..Len(up.data.plays) :
                           up.data.plays[j] = PlayOf(up.payload.items[i])})
              = Cardinality({j \in IntentionalListens :
                               PlayOf(up.payload.items[j]) = PlayOf(up.payload.items[i])})
       /\ \A i \in IntentionalListens :
            /\ up.format = "privacy"
            /\ up.payload.items[i].endTime = <<"1970-01-01", " ", "10:00:00">>
            => PlayOf(up.payload.items[i]).playedAt = "1970-01-01T10:00:00.000Z"
  /\ up.pc \in {"resolve", "write"} /\ up.format \in {"privacy", "full_privacy"} =>
       \A key \in up.keys :
         \E i \in 1..Len(up.payload.items) :
           /\ ListenedMs(up.payload.items[i]) >= 30000
           /\ LookupKey(up.payload.items[i]) = key

\* A name-based export with listens of 40000, 30000, 29999 and 10000 ms has
\* been built into its two plays
C12_Witness ==
  /\ PrivacyBuilt
  /\ up.format = "privacy"
  /\ up.files = <<"names">>
  /\ Range(up.data.plays) = {Play(IdX, "1970-01-01T10:00:00.000Z"),
                             Play(IdY, "1970-01-01T11:00:00.000Z")}

\* The files of the upload, and what the claim says of them
UploadedFile(i) == RawFiles[up.files[i]]
AllNative == \A i \in 1..Len(up.files) : restoreSchema(UploadedFile(i))
SamePrivacyFormat ==
  \/ \A i \in 1..Len(up.files) : yourSpotifyPrivacySchema(UploadedFile(i))
  \/ \A i \in 1..Len(up.files) : yourSpotifyFullPrivacySchema(UploadedFile(i))

\* The lists of the first n files, one after the other
RECURSIVE NativeConcat(_, _)
NativeConcat(key, n) ==
  IF n = 0 THEN <<>>
  ELSE NativeConcat(key, n - 1) \o RestoreData(UploadedFile(n))[key]
RECURSIVE ItemsConcat(_)
ItemsConcat(n) ==
  IF n = 0 THEN <<>> ELSE ItemsConcat(n - 1) \o UploadedFile(n).items

\* The files are merged whole or rejected whole
MergedOrRejected ==
  UploadRead =>
    /\ AllNative =>
         /\ ~Rejected400
         /\ up.format = "native"
         /\ up.data = [key \in RestoreKeys |-> NativeConcat(key, Len(up.files))]
    /\ ~AllNative /\ SamePrivacyFormat =>
         /\ ~Rejected400
         /\ up.format \in {"privacy", "full_privacy"}
         /\ up.payload = Arr(ItemsConcat(Len(up.files)))
    /\ ~AllNative /\ ~SamePrivacyFormat =>
         /\ Rejected400
         /\ up.data = EmptyData

\* The store changes only for files that go together
WritesOnlyMerged ==
  storeVars' # storeVars => AllNative \/ SamePrivacyFormat

\* C13: the files of an upload are merged all-or-nothing: files that all
\* match the Native schema are imported as the concatenation of their
\* albums, artists, tracks and plays, files that are all arrays of the same
\* privacy format as the concatenation of the arrays, and any other
\* combination is rejected with HTTP 400 and nothing is written
C13_MergeIsAllOrNothing == []MergedOrRejected /\ [][WritesOnlyMerged]_vars

\* Two native files have been imported as one payload
C13_Witness ==
  /\ up.pc = "respond"
  /\ up.status = 200
  /\ up.files = <<"native2", "native3">>
  /\ Len(up.data.plays) = 3
  /\ "al9" \in DOMAIN albums
  /\ playEvents # {}

----------------------------------------------------------------------------
(* Properties of the JSON import writer *)

\* Every stored track names a stored album or none, and stored artists only,
\* and every track-artist row names a stored artist
ReferencesAreStored ==
  /\ \A id \in DOMAIN tracks :
       /\ tracks[id].albumId = Null \/ tracks[id].albumId \in DOMAIN albums
       /\ Range(tracks[id].artistIds) \subseteq DOMAIN artists
  /\ \A row \in trackArtists : row[2] \in DOMAIN artists

\* A step of the JSON import that answers with status 200
JsonImported ==
  /\ importResponse = NoImportResponse
  /\ importResponse'.status = 200

\* The albums and artists a reference may name: those of the payload and
\* those stored before the import
KnownAlbums(data) == {a.id : a \in Range(data.albums)} \cup DOMAIN albums
KnownArtists(data) == {a.id : a \in Range(data.artists)} \cup DOMAIN artists

\* Every track of the payload is stored after the import, and a track the
\* import has written keeps the references of the payload that are known
TracksKeptReferencesPruned ==
  JsonImported =>
    LET data == JsonPayloads[importResponse'.payload]
    IN \A i \in 1..Len(data.tracks) :
         LET t == data.tracks[i]
         IN /\ t.id \in DOMAIN tracks'
            /\ t.id \notin DOMAIN tracks =>
                 /\ tracks'[t.id].albumId \in {Null} \cup KnownAlbums(data)
                 /\ Range(tracks'[t.id].artistIds) \subseteq KnownArtists(data)
                 /\ \A a \in KnownArtists(data) :
                      <<t.id, a>> \in trackArtists' =>
                        \E j \in 1..Len(data.tracks) :
                          data.tracks[j].id = t.id /\ a \in Range(data.tracks[j].artistIds)

UploadWritten == up.pc = "write" /\ up'.pc = "respond" /\ up'.status = 200

\* The entries of a list that are the last of their id
LastOfId(list) ==
  {i \in 1..Len(list) : \A j \in (i + 1)..Len(list) : list[j].id # list[i].id}

\* After the write every album, artist and track id of the payload carries
\* the values of its last entry
PayloadValuesStored ==
  UploadWritten =>
    /\ \A i \in LastOfId(up.data.albums) :
         albums'[up.data.albums[i].id] = up.data.albums[i].name
    /\ \A i \in LastOfId(up.data.artists) :
         artists'[up.data.artists[i].id] = up.data.artists[i].name
    /\ \A i \in LastOfId(up.data.tracks) :
         tracks'[up.data.tracks[i].id].name = up.data.tracks[i].name

\* After the write an id that was stored keeps its row, and an id that was
\* not carries the values of its last entry
NewPayloadValuesStored ==
  UploadWritten =>
    /\ \A i \in LastOfId(up.data.albums) :
         LET a == up.data.albums[i]
         IN albums'[a.id] = IF a.id \in DOMAIN albums THEN albums[a.id] ELSE a.name
    /\ \A i \in LastOfId(up.data.artists) :
         LET a == up.data.artists[i]
         IN artists'[a.id] = IF a.id \in DOMAIN artists THEN artists[a.id] ELSE a.name
    /\ \A i \in LastOfId(up.data.tracks) :
         LET t == up.data.tracks[i]
         IN IF t.id \in DOMAIN tracks THEN tracks'[t.id] = tracks[t.id]
            ELSE tracks'[t.id].name = t.name

CountsAccountForEveryPlay ==
  UploadWritten =>
    /\ up'.importedPlays = Cardinality(playEvents') - Cardinality(playEvents)
    /\ up'.importedPlays + up'.skippedPlays = Len(up.data.plays)

\* C16: the counts of a successful JSON import account for every play of
\* the payload: importedPlays is the number of PlayEvents inserted, every
\* play not inserted (unknown track, unparseable timestamp, duplicate in the
\* payload, duplicate of a stored PlayEvent) is counted in skippedPlays, and
\* importedPlays + skippedPlays is the number of plays of the payload
C16_CountsAccountForEveryPlay == [][CountsAccountForEveryPlay]_vars

----------------------------------------------------------------------------
(* Properties of the import start *)

\* The runs of a user that are running and were started in the last 15
\* minutes
FreshRunning(userId) ==
  {run \in importRuns :
     /\ run.userId = userId
     /\ run.status = "running"
     /\ now - run.startedAt <= 15 * 60 * 1000}

\* A request evaluates the guard, and a request creates its run
GuardStep(p) == st.req[p].pc = "idle" /\ st'.req[p].pc # "idle"
CreateStep(p) == st.req[p].pc = "create" /\ st'.req[p].pc = "respond"

\* With a fresh running run the request answers 'already running' with the
\* id of such a run and starts nothing; without one it goes on to create
GuardAnswers(p) ==
  GuardStep(p) =>
    LET userId == st'.req[p].userId
    IN /\ importRuns' = importRuns
       /\ st'.imports = st.imports
       /\ IF FreshRunning(userId) # {}
          THEN /\ st'.req[p].pc = "respond"
               /\ st'.req[p].alreadyRunning
               /\ st'.req[p].importRunId \in {run.id : run \in FreshRunning(userId)}
          ELSE st'.req[p].pc = "create"

\* A request that creates does so when the user has no fresh running run,
\* adds one running ImportRun and launches one import for it
CreatesOne(p) ==
  CreateStep(p) =>
    LET userId == st.req[p].userId
    IN /\ FreshRunning(userId) = {}
       /\ ~st'.req[p].alreadyRunning
       /\ \E run \in importRuns' \ importRuns :
            /\ importRuns' = importRuns \cup {run}
            /\ run.userId = userId
            /\ run.status = "running"
            /\ run.id = st'.req[p].importRunId
            /\ run.id \notin st.imports
            /\ st'.imports = st.imports \cup {run.id}

\* A request that answered 'already running' only has its answer to send
AnsweredOnly ==
  \A p \in StartProcs : st.req[p].alreadyRunning => st.req[p].pc = "respond"

\* C17: with the import-start requests of a user handled one at a time, a
\* request arriving while the user has a running ImportRun started within
\* the last 15 minutes creates no ImportRun, launches no import and answers
\* 'already running' with the id of that run; every other request creates
\* exactly one running ImportRun and launches exactly one import for it
C17_InFlightGuard ==
  /\ []AnsweredOnly
  /\ [][\A p \in StartProcs : GuardAnswers(p) /\ CreatesOne(p)]_vars

\* A request arriving exactly 15 minutes after the start of a run that is
\* still running is answered 'already running' with the id of that run
C17_Witness ==
  \E p \in StartProcs :
    /\ st.req[p].pc = "respond"
    /\ st.req[p].alreadyRunning
    /\ st.req[p].importRunId = 1
    /\ now = 15 * 60 * 1000
    /\ \E run \in importRuns : run.id = 1 /\ run.startedAt = 0 /\ run.status = "running"
    /\ st.imports = {1}

----------------------------------------------------------------------------
(* Properties of the aggregation *)

\* An entry without its rank, and the number of times it is in a list
WithoutRank(entry) == [entry EXCEPT !.rank = 0]
TimesIn(entry, list) ==
  Cardinality({i \in 1..Len(list) : WithoutRank(list[i]) = WithoutRank(entry)})

\* out holds the entries of input, each as often as input does
IsPermutationOf(out, input) ==
  /\ Len(out) = Len(input)
  /\ \A entry \in Range(input) \cup Range(out) :
       TimesIn(entry, out) = TimesIn(entry, input)

\* The ranks are 1..n in the order of the list
RanksContiguous(out) == \A i \in 1..Len(out) : out[i].rank = i

\* The list is in the order of the sort key
InOrderOf(out, sortBy) ==
  \A i, j \in 1..Len(out) :
    i < j =>
      CASE sortBy = "plays" -> out[i].playCount >= out[j].playCount
        [] sortBy = "minutes" -> out[i].totalMinutes >= out[j].totalMinutes
        [] OTHER ->
             /\ out[i].lastListened = Null => out[j].lastListened = Null
             /\ out[i].lastListened # Null /\ out[j].lastListened # Null =>
                  DateParse(out[i].lastListened) >= DateParse(out[j].lastListened)

\* The rows of the top list asked for whose name holds the search
SearchedRows ==
  LET needle == trim(toLowerCase(fn.search))
  IN SelectSeq(fn.rollups[fn.type],
               LAMBDA row : needle = <<>> \/ includesText(toLowerCase(row.name), needle))

\* C18: for every list and every sort key, sortEntries returns a permutation
\* of its input with ranks 1..n in output order, ordered by non-increasing
\* play count, non-increasing minutes, or most recent lastListened first
\* with the entries without lastListened after all others; getTopEntries
\* filters by name before it ranks, so a filtered view has ranks 1..n too
C18_SortedAndRanked ==
  /\ fn.op = "sortEntries" =>
       /\ IsPermutationOf(fn.entriesOut, fn.entries)
       /\ RanksContiguous(fn.entriesOut)
       /\ InOrderOf(fn.entriesOut, fn.sortBy)
  /\ fn.op = "getTopEntries" =>
       /\ IsPermutationOf(fn.entriesOut, SearchedRows)
       /\ RanksContiguous(fn.entriesOut)
       /\ InOrderOf(fn.entriesOut, fn.sortBy)

\* A list that starts with an entry without lastListened and ends with one
\* that has it has been sorted by recency
C18_Witness ==
  /\ fn.op = "sortEntries"
  /\ fn.sortBy = "recent"
  /\ Len(fn.entries) = 3
  /\ fn.entries[1].lastListened = Null
  /\ fn.entries[2].lastListened = Null
  /\ fn.entries[3].lastListened # Null
  /\ fn.entriesOut[1].id = fn.entries[3].id
  /\ fn.entriesOut[1].rank = 1

\* The events of the range that was aggregated, and those whose track has
\* all four features
WindowEvents ==
  {e \in playEvents : /\ e.userId = "u1"
                      /\ e.playedAt >= fn.range.from
                      /\ e.playedAt <= fn.range.to}
FeatureComplete ==
  {e \in WindowEvents :
     \A f \in {"energy", "danceability", "valence", "tempo"} :
       tracks[e.trackId][f] # NoFeature}

\* Sum of a feature over a set of events
RECURSIVE FeatureSum(_, _)
FeatureSum(events, f) ==
  IF events = {} THEN 0
  ELSE LET e == CHOOSE x \in events : TRUE
       IN tracks[e.trackId][f] + FeatureSum(events \ {e}, f)

\* avg is the quotient sum / n rounded to the unit
IsMeanOf(avg, sum, n) == 2 * avg * n <= 2 * sum + n /\ 2 * sum - n < 2 * avg * n

----------------------------------------------------------------------------
(* Properties of the seed strategies *)

PriorityOrder ==
  <<"tracks+artists+genres", "tracks+artists", "tracks-only", "artists-only">>
PriorityOf(label) == CHOOSE i \in 1..Len(PriorityOrder) : PriorityOrder[i] = label
SeedCount(strategy) ==
  Len(strategy.seedTracks) + Len(strategy.seedArtists) + Len(strategy.seedGenres)
FirstOf(list, n) == SubSeq(list, 1, IF n < Len(list) THEN n ELSE Len(list))

\* The seeds the strategy of priority i stands for: at most 2 tracks, at most
\* 2 artists, and genres for what is left of 5
ContentOf(i) ==
  LET seedTracks == IF i \in {1, 2, 3} THEN FirstOf(seed.seedTrackIds, 2) ELSE <<>>
      seedArtists == IF i \in {1, 2, 4} THEN FirstOf(seed.seedArtistIds, 2) ELSE <<>>
      seedGenres == IF i = 1
                    THEN FirstOf(seed.supportedSeedGenres,
                                 5 - Len(seedTracks) - Len(seedArtists))
                    ELSE <<>>
  IN <<seedTracks, seedArtists, seedGenres>>
SeedsOf(strategy) == <<strategy.seedTracks, strategy.seedArtists, strategy.seedGenres>>
IsEmptyContent(content) == content = <<<<>>, <<>>, <<>>>>

\* The list holds, in the order of priority, every strategy that has a seed
\* and whose seeds differ from those of every strategy before it
StrategiesInPriorityOrder ==
  /\ \A k \in 1..Len(seed.strategies) :
       LET strategy == seed.strategies[k]
       IN /\ strategy.label \in Range(PriorityOrder)
          /\ SeedsOf(strategy) = ContentOf(PriorityOf(strategy.label))
          /\ SeedCount(strategy) >= 1
          /\ SeedCount(strategy) <= 5
          /\ Len(strategy.seedTracks) <= 2
          /\ Len(strategy.seedArtists) <= 2
          /\ \A j \in 1..(k - 1) :
               /\ PriorityOf(seed.strategies[j].label) < PriorityOf(strategy.label)
               /\ SeedsOf(seed.strategies[j]) # SeedsOf(strategy)
  /\ seed.pc = "loop" \/ seed.requests # <<>> =>
       \A i \in 1..Len(PriorityOrder) :
         \/ IsEmptyContent(ContentOf(i))
         \/ \E k \in 1..Len(seed.strategies) :
              /\ PriorityOf(seed.strategies[k].label) <= i
              /\ SeedsOf(seed.strategies[k]) = ContentOf(i)

HasTracks(answer) == answer.kind = "ok" /\ Len(answer.body) > 0
EmptyOr4xx(answer) ==
  \/ answer.kind = "ok" /\ Len(answer.body) = 0
  \/ answer.kind = "SpotifyApiError" /\ answer.status >= 400 /\ answer.status < 500

\* The requests are the strategies in their order, none left out
RequestedInOrder ==
  /\ Len(seed.requests) <= Len(seed.strategies)
  /\ \A k \in 1..Len(seed.requests) : seed.requests[k].strategy = seed.strategies[k]
  /\ seed.pc = "loop" => Len(seed.requests) < Len(seed.strategies)

\* The first strategy answered with a track ends the search with its tracks
FirstWithTracksWins ==
  /\ \A k \in 1..Len(seed.requests) :
       HasTracks(seed.requests[k].answer) =>
         /\ k = Len(seed.requests)
         /\ seed.pc = "done"
         /\ seed.returned = seed.requests[k].answer.body
         /\ seed.thrown = NoSeedError
  /\ seed.returned # <<>> =>
       /\ seed.requests # <<>>
       /\ HasTracks(seed.requests[Len(seed.requests)].answer)

\* After an empty list or a 4xx the next strategy is asked, as long as there
\* is one
EmptyOr4xxGoesOn ==
  \A k \in 1..Len(seed.requests) :
    EmptyOr4xx(seed.requests[k].answer) =>
      \/ k < Len(seed.requests)
      \/ seed.pc = "loop"
      \/ k = Len(seed.strategies) /\ seed.pc = "done" /\ seed.returned = <<>>

\* The supported genres were determined and there is none
NoGenreSupported ==
  /\ seed.pc = "loop" \/ seed.requests # <<>> \/ seed.thrown.kind = "Error"
  /\ seed.supportedSeedGenres = <<>>

\* Without a supported genre the first request carries the track and artist
\* seeds alone, and its tracks are the candidates
FallsBackToTracksAndArtists ==
  NoGenreSupported /\ Len(seed.seedTrackIds) + Len(seed.seedArtistIds) > 0 =>
    /\ seed.strategies # <<>>
    /\ seed.strategies[1].seedTracks = FirstOf(seed.seedTrackIds, 2)
    /\ seed.strategies[1].seedArtists = FirstOf(seed.seedArtistIds, 2)
    /\ seed.strategies[1].seedGenres = <<>>
    /\ seed.thrown.message # "Not enough listening data to generate recommendations yet."
    /\ seed.requests # <<>> /\ HasTracks(seed.requests[1].answer) =>
         seed.returned = seed.requests[1].answer.body

\* C20: the strategies are tried in the order tracks+artists+genres,
\* tracks+artists, tracks-only, artists-only, without the empty ones and those
\* that repeat the seeds of an earlier one, each with at most 5 seeds, 2
\* tracks and 2 artists; the tracks of the first strategy answered with at
\* least one track are the candidates and nothing is requested after it; an
\* empty list or a 4xx is followed by the next strategy; with no supported
\* genre and a track or artist seed, the request of the track and artist
\* seeds is made and its tracks are the candidates
C20_StrategiesInPriorityOrder ==
  /\ StrategiesInPriorityOrder
  /\ RequestedInOrder
  /\ FirstWithTracksWins
  /\ EmptyOr4xxGoesOn
  /\ FallsBackToTracksAndArtists

\* No seed genre is supported; the first strategy was answered with a 4xx,
\* the second with an empty list, the third with tracks
C20_Witness ==
  /\ seed.pc = "done"
  /\ seed.seedGenres # <<>>
  /\ seed.supportedSeedGenres = <<>>
  /\ Len(seed.requests) = 3
  /\ seed.requests[1].answer.kind = "SpotifyApiError"
  /\ seed.requests[1].answer.status = 400
  /\ seed.requests[1].strategy.seedGenres = <<>>
  /\ seed.requests[1].strategy.seedTracks # <<>>
  /\ seed.requests[1].strategy.seedArtists # <<>>
  /\ seed.requests[2].answer = Answered(<<>>)
  /\ HasTracks(seed.requests[3].answer)
  /\ seed.returned = seed.requests[3].answer.body


\* An answer is the gateway error of an expired authorisation or of a
\* failing provider
AuthOrServerError(answer) ==
  answer.kind = "SpotifyApiError" /\ (answer.status = 401 \/ answer.status >= 500)
Other4xx(answer) ==
  /\ answer.kind = "SpotifyApiError"
  /\ answer.status >= 400 /\ answer.status < 500 /\ answer.status # 401
EveryStrategyAnswered ==
  seed.pc = "done" /\ seed.requests # <<>> /\ Len(seed.requests) = Len(seed.strategies)

\* C21: a strategy answered with a gateway error of status 401 or 5xx is the
\* last one requested and that error is thrown (the daily route reports 401,
\* or 502 for a 5xx); when every strategy fails with another 4xx the failure
\* is that no seed combination worked, when every strategy answers with an
\* empty list it is that there are no candidates
C21_AuthAndServerErrorsAbort ==
  /\ \A k \in 1..Len(seed.requests) :
       LET answer == seed.requests[k].answer
       IN AuthOrServerError(answer) =>
            /\ k = Len(seed.requests)
            /\ seed.pc = "done"
            /\ seed.thrown = Rethrown(answer)
            /\ mapRecommendationError(seed.thrown.kind, seed.thrown.status)
                 = IF answer.status = 401 THEN 401 ELSE 502
  /\ EveryStrategyAnswered
       /\ (\A k \in 1..Len(seed.requests) : Other4xx(seed.requests[k].answer)) =>
         seed.thrown = SeedError("Spotify could not generate recommendations from available seed combinations.")
  /\ EveryStrategyAnswered
       /\ (\A k \in 1..Len(seed.requests) : seed.requests[k].answer = Answered(<<>>)) =>
         seed.thrown = SeedError("Spotify returned no recommendation candidates for your profile.")


\* The track ids of the play events of user u
ListenedBy(u) == {e.trackId : e \in {x \in playEvents : x.userId = u}}

\* The list is the candidates without the listened ones, in their order: its
\* k-th track is the k-th candidate that was not listened to
IsOrderedRest(list, candidates, listened) ==
  LET keep == {i \in 1..Len(candidates) : candidates[i] \notin listened}
  IN /\ Len(list) = Cardinality(keep)
     /\ \A k \in 1..Len(list) :
          \E i \in keep : /\ Cardinality({j \in keep : j <= i}) = k
                          /\ list[k] = candidates[i]

FilterKeepsTheUnlistened ==
  \A candidates \in CandidateLists, u \in Users :
    IsOrderedRest(filterNewToMeTracks(candidates, ListenedBy(u)), candidates,
                  ListenedBy(u))

FreshSetIsNewToMe ==
  recResponse.kind = "ok" /\ ~recResponse.fromCache =>
    recResponse.tracks \cap ListenedBy(recResponse.userId) = {}

\* A generate call whose candidates were all listened to fails with the error
\* of no new tracks and writes nothing
NothingNewFails ==
  \A p \in GenProcs, out \in CandidateOutcomes, enrichStatus \in {200, 500} :
    (/\ GenFinish(p, out, enrichStatus)
     /\ out.kind = "tracks"
     /\ ListenedBy(gen[p].userId) # {}
     /\ \A i \in 1..Len(out.tracks) : out.tracks[i] \in ListenedBy(gen[p].userId)) =>
      /\ recResponse'.kind = "no_new_tracks"
      /\ recResponse'.status = 400
      /\ dailyRecRuns' = dailyRecRuns

\* C22: filterNewToMeTracks returns the candidates whose id is not in the
\* listened set, in their order; a freshly computed recommendation set holds
\* no track of the user's play history; when no candidate is left the call
\* fails with the error of no new tracks and no row is written
C22_NewToMeFilter ==
  /\ [](FilterKeepsTheUnlistened /\ FreshSetIsNewToMe)
  /\ [][NothingNewFails]_vars

\* A fresh set for u1, who has listened to t1: t2 and t3 of the candidates
C22_Witness ==
  /\ recResponse.kind = "ok"
  /\ ~recResponse.fromCache
  /\ recResponse.userId = "u1"
  /\ "t1" \in ListenedBy("u1")
  /\ recResponse.tracks = {"t2", "t3"}


----------------------------------------------------------------------------
(* Properties of the export *)

ExportComplete == fn.op = "export" /\ fn.pending = {}
FirstFive(list) == SubSeq(list, 1, IF Len(list) < 5 THEN Len(list) ELSE 5)

\* C23: in a complete export payload the figures of the dashboard agree with
\* the exported top lists: totalUniqueSongs, totalUniqueArtists and
\* totalUniqueAlbums are the lengths of topSongs, topArtists and topAlbums,
\* and each preview is the first five of its list, also when an import
\* stores play events of the user between the reads of the export
C23_ExportAgreesWithDashboard ==
  ExportComplete =>
    /\ fn.dashboard.totalUniqueSongs = Len(fn.songs)
    /\ fn.dashboard.totalUniqueArtists = Len(fn.artists)
    /\ fn.dashboard.totalUniqueAlbums = Len(fn.albums)
    /\ fn.dashboard.topSongsPreview = FirstFive(fn.songs)
    /\ fn.dashboard.topArtistsPreview = FirstFive(fn.artists)
    /\ fn.dashboard.topAlbumsPreview = FirstFive(fn.albums)

----------------------------------------------------------------------------
(* Properties of the provider lookups of an upload *)

\* C24: when the provider lookups of a privacy-format upload fail with
\* status 401, the request ends with a 401 error response and writes no play
\* event, instead of completing as a successful import with the plays
\* dropped
C24_ExpiredAuthIs401 ==
  (up.pc = "respond" /\ up.lookupStatus = 401)
    => (up.status = 401 /\ up.importedPlays = 0)

----------------------------------------------------------------------------
(* Properties of runSpotifyImport *)

TerminalStatuses == {"completed", "failed"}

\* A call of runSpotifyImport has ended, by returning or by throwing
RunEnded == sp.pc = "idle" /\ sp.status # "none"

\* The ImportRun of a call that returned
CompletedRun ==
  /\ sp.status = "completed"
  /\ sp.importedPlays >= 0
  /\ sp.importedTracks >= 0
  /\ sp.finishedAt # NoTime

\* The ImportRun of a call that threw: failed with the message of the error
\* that was thrown in the try block
FailedRun ==
  /\ sp.status = "failed"
  /\ sp.message = sp.thrown
  /\ sp.finishedAt # NoTime

\* The catch block writes nothing to the catalogue or the play events
CatchKeepsEarlierWrites ==
  (sp.pc = "catch" /\ sp'.pc = "idle") => UNCHANGED storeVars

\* The status of a run that has ended changes only when the next run starts
TerminalStatusStays ==
  (sp.pc = "idle" /\ sp.status \in TerminalStatuses)
    => (sp'.status = sp.status \/ sp'.pc = "fetch")

\* The catch block's two updates did not throw
CatchWrote == sp.thrown \notin {"user_update_throws", "run_update_throws"}

\* Every call whose catch block, if entered, wrote its two updates ends in
\* a terminal status
EndsTerminalWhenCatchWrites ==
  [](RunEnded /\ CatchWrote =>
       IF sp.thrown = "" THEN CompletedRun ELSE FailedRun)
    /\ [][CatchKeepsEarlierWrites /\ TerminalStatusStays]_vars

\* C25: every call of runSpotifyImport ends with its ImportRun in a terminal
\* status and never leaves it running: completed with importedPlays,
\* importedTracks and finishedAt set when it returns, failed with the message
\* of the causing error and finishedAt set when a step throws, the rows
\* written by earlier steps remaining; a terminal status never changes
C25_RunEndsInTerminalStatus ==
  [](RunEnded => IF sp.thrown = "" THEN CompletedRun ELSE FailedRun)
    /\ [][CatchKeepsEarlierWrites /\ TerminalStatusStays]_vars

----------------------------------------------------------------------------
(* Properties of concurrent import starts *)

\* A request that creates adds one running ImportRun of its user and
\* launches one import for it, whatever runs the user has by then
CreatesWhateverRuns(p) ==
  CreateStep(p) =>
    LET userId == st.req[p].userId
    IN /\ ~st'.req[p].alreadyRunning
       /\ \E run \in importRuns' \ importRuns :
            /\ importRuns' = importRuns \cup {run}
            /\ run.userId = userId
            /\ run.status = "running"
            /\ run.id = st'.req[p].importRunId
            /\ st'.imports = st.imports \cup {run.id}

\* C26: the in-flight guard is read-then-act and not atomic: the guard
\* answers from the runs at the time of its query, and a request that found
\* no run creates its ImportRun and launches its import whatever runs exist
\* by then, so two requests of a user that both evaluate the guard before
\* either creates end with two running ImportRuns and two imports
C26_GuardIsReadThenAct ==
  [][\A p \in StartProcs : GuardAnswers(p) /\ CreatesWhateverRuns(p)]_vars

\* Reached: both requests of u1 passed the guard and created; two
\* ImportRuns of u1 are running, both started in the last 15 minutes, and
\* the imports of both are under way
C26_Witness ==
  /\ \A p \in StartProcs :
       /\ st.req[p].pc = "respond"
       /\ st.req[p].userId = "u1"
       /\ ~st.req[p].alreadyRunning
       /\ st.req[p].status = 200
  /\ st.req["s1"].importRunId # st.req["s2"].importRunId
  /\ {st.req[p].importRunId : p \in StartProcs} \subseteq st.imports
  /\ {st.req[p].importRunId : p \in StartProcs}
       \subseteq {run.id : run \in FreshRunning("u1")}

----------------------------------------------------------------------------
(* Properties of concurrent generation *)

\* A call ends: it throws or it writes its row and returns
FinishStep(p) == gen[p].pc = "running" /\ gen'[p].pc = "idle"

\* The call read no row of today at its start, and another call has created
\* today's row of the user since
OtherCreatedFirst(p) ==
  /\ ~gen[p].existing
  /\ RecRowsOf(gen[p].userId, gen[p].today) # {}

\* The computation of the call got to the write: there was a history, and
\* the provider answered every request
ComputedASet(p) == recResponse'.calls = 2 /\ recResponse'.kind # "SpotifyApiError"

\* C27: when two generate calls of a user for one UTC date both read the
\* cache, finding no row, before either writes, both complete and return a
\* recommendation set and exactly one row exists afterwards: the call that
\* writes second does not fail because the other created the row first
C27_ConcurrentGenerationResolved ==
  [][\A p \in GenProcs :
       (FinishStep(p) /\ OtherCreatedFirst(p) /\ ComputedASet(p))
         => /\ recResponse'.kind = "ok"
            /\ recResponse'.status = 200
            /\ Cardinality(RecRowsOf(gen[p].userId, gen[p].today)') = 1]_vars

----------------------------------------------------------------------------
(* Properties of failed generation *)

\* A call is answered in this step, with a failure
FailsNow ==
  /\ recResponse = NoResponseYet
  /\ recResponse' # NoResponseYet
  /\ recResponse'.kind # "ok"

\* A failing call leaves every DailyRecRun row as it was and creates none
FailureLeavesRows == FailsNow => dailyRecRuns' = dailyRecRuns

\* The rows change only in the step that ends a computation which got through
\* all its provider calls, and that step answers with the fresh set
WrittenOnlyOnSuccess ==
  dailyRecRuns' # dailyRecRuns
    => /\ recResponse'.kind = "ok"
       /\ ~recResponse'.fromCache
       /\ recResponse'.calls = 2

\* C28: a generate call that fails for any reason (throttling, no history,
\* no seeds, no candidates, no new tracks, a gateway error) leaves the
\* DailyRecRun rows exactly as they were: today's row keeps its tracks,
\* albums and createdAt and no row is created; the row is written only as
\* the last step of a computation that succeeded
C28_FailureLeavesCache ==
  [][FailureLeavesRows /\ WrittenOnlyOnSuccess]_vars

\* Reached: a forced regeneration past the cooldown failed with a gateway
\* error while today's row of the user exists
C28_Witness ==
  /\ recResponse.kind = "SpotifyApiError"
  /\ recResponse.force
  /\ recResponse.existing
  /\ RecRowsOf(recResponse.userId, dateOnlyUtc(now)) # {}

----------------------------------------------------------------------------
(* Properties of the transaction of the JSON import *)

\* The request runs its transaction in this step
WriteStep == up.pc = "write" /\ up'.pc = "respond"

\* The error text that goes with what the transaction threw
CauseSpecific(thrown, error) ==
  /\ error # ""
  /\ thrown.code = "P2003"
       <=> error = "Import failed due to missing related records (track/artist/album)."
  /\ thrown.code = "P2024"
       <=> error = "Import failed because the database timed out. Try importing a smaller file."
  /\ thrown.code = "P2028" <=> error = "Import transaction failed. Please retry."
  /\ (thrown.kind = "PrismaClientKnownRequestError"
        /\ thrown.code \notin {"P2003", "P2024", "P2028"})
       <=> error = "Import failed while writing data to the database."
  /\ thrown.message = "Transaction already closed"
       <=> error = "Restore failed: Transaction already closed"

\* A transaction that throws: status 500, a message for the cause, and the
\* tables and the user rows as before the request
FailedWriteRollsBack ==
  (WriteStep /\ up'.status # 200)
    => /\ up'.status = 500
       /\ CauseSpecific(up'.thrown, up'.error)
       /\ UNCHANGED storeVars
       /\ userRows' = userRows

\* A transaction that commits: the rows of the payload are stored and the
\* user's last import states the time and the number of inserted plays
CommittedWrite ==
  (WriteStep /\ up'.status = 200)
    => /\ Cardinality(playEvents' \ playEvents) = up'.importedPlays
       /\ playEvents \subseteq playEvents'
       /\ {up.data.tracks[i].id : i \in 1..Len(up.data.tracks)} \subseteq DOMAIN tracks'
       /\ {up.data.albums[i].id : i \in 1..Len(up.data.albums)} \subseteq DOMAIN albums'
       /\ {up.data.artists[i].id : i \in 1..Len(up.data.artists)} \subseteq DOMAIN artists'
       /\ userRows' = [userRows EXCEPT ![up.userId] =
                         LastImport(now, "JSON restore completed", up'.importedPlays, "")]

\* The last import of a user is set by a transaction that commits only
LastImportOnlyOnSuccess ==
  userRows' # userRows => (WriteStep /\ up'.status = 200)

\* C29: the JSON import writes atomically: when the writer fails the answer
\* is HTTP 500 with a message for the cause and the store is as before the
\* request, no catalogue row, no play event, lastImportAt and
\* lastImportStatus unchanged; the last-import status is set on success only
\* and then states the final number of inserted plays
C29_AtomicWrite ==
  [][FailedWriteRollsBack /\ CommittedWrite /\ LastImportOnlyOnSuccess]_vars

\* Reached: after an upload that stored plays, an upload with plays whose
\* transaction timed out is answered 500; the plays and the last-import
\* status of the first upload are in place
C29_Witness ==
  /\ up.pc = "respond"
  /\ up.status = 500
  /\ up.thrown.code = "P2024"
  /\ Len(up.data.plays) > 0
  /\ playEvents # {}
  /\ userRows["u1"] =
       LastImport(0, "JSON restore completed", Cardinality(playEvents), "")

----------------------------------------------------------------------------
(* Properties of the history pagination *)

\* The next of the page a request asked for
NextOf(k) == ProviderPage(fn.provider, fn.requests[k]).next

\* The items of the first n pages requested, in order
RECURSIVE PagesConcat(_)
PagesConcat(n) ==
  IF n = 0 THEN <<>>
  ELSE PagesConcat(n - 1) \o ProviderPage(fn.provider, fn.requests[n]).items

\* A request is made when every request before it has been answered
OneAtATimeInOrder ==
  Len(fn.requests) = fn.page + (IF fn.pc \in {"await", "thrown"} THEN 1 ELSE 0)

\* The first request is for the first page, every other one for the next of
\* the page before it, which was not null
FollowsTheCursor ==
  \A k \in 1..Len(fn.requests) :
    IF k = 1 THEN fn.requests[k] = FirstPage
    ELSE NextOf(k - 1) # NoCursor /\ fn.requests[k] = NextOf(k - 1)

\* The rows are the items of the pages answered so far
RowsArePages == fn.rows = PagesConcat(fn.page)

\* The function returns at the first null next, or after 20 pages
ReturnsAtNullOrLimit ==
  fn.pc = "returned" =>
    /\ Len(fn.requests) = fn.page
    /\ \/ fn.page = 20
       \/ fn.page > 0 /\ NextOf(fn.page) = NoCursor

\* C30: the history pagination terminates and is strictly sequential: page
\* N+1 is requested only after page N has been answered, with the next
\* cursor of page N, the loop stops at the first page whose next is null and
\* makes at most 20 requests even if next is never null, and the rows
\* returned are the pages fetched, concatenated in order
C30_SequentialBoundedPagination ==
  /\ Len(fn.requests) <= 20
  /\ OneAtATimeInOrder
  /\ FollowsTheCursor
  /\ RowsArePages
  /\ ReturnsAtNullOrLimit

\* Reached: a provider whose next is never null, and the function has
\* returned the 20 pages it fetched
C30_Witness ==
  /\ fn.pc = "returned"
  /\ fn.provider.endless
  /\ fn.provider.stride = 2
  /\ Len(fn.requests) = 20
  /\ Len(fn.rows) = 20
  /\ NextOf(20) # NoCursor

====
